---- MODULE Spec2Model ----
(***************************************************************************)
(* A model of viewcodexlog.py: the JSONL loader and its record-to-Entry    *)
(* dispatcher, the page assembler, the upload extractor and the git-based  *)
(* revision builder.                                                       *)
(*                                                                         *)
(* Texts.  A Python str is modelled as a sequence of symbols.  A symbol is *)
(* either one character that some function of the program treats           *)
(* specially (white space, the JSON punctuation, the characters            *)
(* html.escape rewrites, the backslash) or a run of ordinary characters    *)
(* (a "word") that every function of the program copies or compares as a   *)
(* whole.                                                                  *)
(*                                                                         *)
(* JSON values.  The value json.loads returns is a tagged record:          *)
(*   None  [t |-> "null"]           bool  [t |-> "bool", b |-> TRUE]       *)
(*   int   [t |-> "num", w |-> "5"] str   [t |-> "str", s |-> text]        *)
(*   list  [t |-> "list", items |-> <<v, ...>>]                            *)
(*   dict  [t |-> "map", pairs |-> <<[k |-> text, v |-> value], ...>>]     *)
(* (a dict keeps its keys in insertion order, as Python's does).           *)
(***************************************************************************)
EXTENDS Integers, Sequences, FiniteSets, TLC

VARIABLES
    file,      \* the log file: a sequence of lines, each a text
    pc,        \* where the run is
    pos,       \* the lines the running loop consumed (enumerate's counter - 1)
    entries,   \* load_entries: the local list `entries`
    outcome,   \* what the last completed call produced
    uploads,          \* extract_run_code_uploads: the local list `uploads`
    summary_section,  \* build_run_code_page: summary_section
    response,         \* what do_GET sent
    gitInstalled,     \* whether the system has a git executable
    areas,     \* the temporary directories that exist
    tmpdir,    \* build_upload_git_history: tmpdir, 0 before the with statement
    repo,      \* the repository in tmpdir
    gitlog,    \* the git invocations so far, oldest first
    idx,       \* build_upload_git_history: the position of the running loop
    revs,      \* build_upload_git_history: revs
    diffs,     \* build_upload_git_history: diffs
    short,     \* build_upload_git_history: short
    exists,       \* main: source_path.exists()
    stderr,       \* the diagnostics written to sys.stderr, oldest first
    sys_stdout,   \* what was printed to sys.stdout, oldest first
    exit_status,  \* <<>> while the process runs, <<code>> once it exited
    bound,     \* whether the server holds the port
    self_path, \* do_GET: self.path of the request a thread handles
    served,    \* the requests handled to their end, oldest first
    cur,       \* the request thread that runs, 0 when none does
    ctx,       \* the locals of the request threads that wait to run
    disk       \* the repositories of the temporary directories of waiting threads

histvars == <<gitInstalled, areas, tmpdir, repo, gitlog, idx, revs, diffs, short>>

srvvars == <<exists, stderr, sys_stdout, exit_status, bound, self_path, served, cur, ctx, disk>>

vars == <<file, pc, pos, entries, outcome, uploads, summary_section, response,
          gitInstalled, areas, tmpdir, repo, gitlog, idx, revs, diffs, short,
          exists, stderr, sys_stdout, exit_status, bound, self_path, served, cur, ctx, disk>>

----------------------------------------------------------------------------
(* Python str and html helpers *)

WS == {" ", "\n", "\t", "\r"}

RECURSIVE LStrip(_)
LStrip(s) == IF s # <<>> /\ Head(s) \in WS THEN LStrip(Tail(s)) ELSE s

RECURSIVE RStrip(_)
RStrip(s) ==
    IF s # <<>> /\ s[Len(s)] \in WS THEN RStrip(SubSeq(s, 1, Len(s) - 1)) ELSE s

\* str.strip()
Strip(s) == RStrip(LStrip(s))

\* "".join(parts), by halves: the evaluation nests log(Len(parts)) deep
RECURSIVE Concat(_)
Concat(parts) ==
    IF parts = <<>> THEN <<>>
    ELSE IF Len(parts) = 1 THEN parts[1]
    ELSE LET h == Len(parts) \div 2 IN
         Concat(SubSeq(parts, 1, h)) \o Concat(SubSeq(parts, h + 1, Len(parts)))

\* sep.join(parts)
Join(sep, parts) ==
    Concat([i \in 1..Len(parts) |-> IF i = 1 THEN parts[i] ELSE sep \o parts[i]])

\* The indices lo..hi that are in keep, in increasing order (by halves: the
\* evaluation nests log(hi - lo) deep).
RECURSIVE SelectRange(_, _, _)
SelectRange(lo, hi, keep) ==
    IF lo > hi THEN <<>>
    ELSE IF lo = hi THEN (IF lo \in keep THEN <<lo>> ELSE <<>>)
    ELSE LET mid == (lo + hi) \div 2 IN
         SelectRange(lo, mid, keep) \o SelectRange(mid + 1, hi, keep)

\* The indices 1..n that are in keep, in increasing order: how a loop that
\* skips some items visits the rest.
SelectIdx(n, keep) == SelectRange(1, n, keep)

EscapeSym(c) ==
    CASE c = "&"  -> "&amp;"
      [] c = "<"  -> "&lt;"
      [] c = ">"  -> "&gt;"
      [] c = "\"" -> "&quot;"
      [] c = "'"  -> "&#x27;"
      [] OTHER    -> c

\* html.escape(s) with quote=True, on a str
HtmlEscape(s) == [i \in 1..Len(s) |-> EscapeSym(s[i])]

\* str.replace("\n", "<br>")
ReplaceNewlines(s) ==
    Concat([i \in 1..Len(s) |-> IF s[i] = "\n" THEN <<"<br>">> ELSE <<s[i]>>])

Contains(s, c) == \E i \in 1..Len(s) : s[i] = c

----------------------------------------------------------------------------
(* JSON values *)

JNull == [t |-> "null"]
JBool(b) == [t |-> "bool", b |-> b]
JNum(w) == [t |-> "num", w |-> w]
JStr(s) == [t |-> "str", s |-> s]
JList(items) == [t |-> "list", items |-> items]
JMap(pairs) == [t |-> "map", pairs |-> pairs]

\* One key of a dict literal (k is a text).
KV(k, v) == [k |-> k, v |-> v]
\* A str of one word.
W(w) == JStr(<<w>>)

IsMap(v) == v.t = "map"
IsList(v) == v.t = "list"
IsStr(v) == v.t = "str"

\* The literals json.loads reads as numbers, among the words of the model.
NumberWords == {"0", "5", "7"}

\* bool(v): Python truthiness
Truthy(v) ==
    CASE v.t = "null" -> FALSE
      [] v.t = "bool" -> v.b
      [] v.t = "num"  -> v.w # "0"
      [] v.t = "str"  -> v.s # <<>>
      [] v.t = "list" -> v.items # <<>>
      [] v.t = "map"  -> v.pairs # <<>>

HasKey(m, k) == \E i \in 1..Len(m.pairs) : m.pairs[i].k = k

\* dict.get(k, default), on a dict
Get(m, k, default) ==
    IF HasKey(m, k)
    THEN m.pairs[CHOOSE i \in 1..Len(m.pairs) : m.pairs[i].k = k].v
    ELSE default

\* d[k] = v while a dict is built: a repeated key keeps its place, the last value wins
MapPut(pairs, k, v) ==
    IF \E i \in 1..Len(pairs) : pairs[i].k = k
    THEN [i \in 1..Len(pairs) |-> IF pairs[i].k = k THEN [k |-> k, v |-> v] ELSE pairs[i]]
    ELSE Append(pairs, [k |-> k, v |-> v])

----------------------------------------------------------------------------
(* json.loads, for the JSON subset of the model: objects, arrays, strings  *)
(* with the escapes \" \\ \/ \n \t \r, the literals null, true, false and  *)
(* the numbers of NumberWords.                                             *)

ParseFail == [ok |-> FALSE]
ParseOk(v, i) == [ok |-> TRUE, v |-> v, i |-> i]

RECURSIVE SkipWs(_, _)
SkipWs(s, i) == IF i <= Len(s) /\ s[i] \in WS THEN SkipWs(s, i + 1) ELSE i

UnescapeSym(c) ==
    CASE c = "n" -> "\n"
      [] c = "t" -> "\t"
      [] c = "r" -> "\r"
      [] OTHER   -> c

\* The first index from i on whose symbol is in set, Len(s) + 1 if there is none.
NextIn(s, i, set) ==
    IF \E j \in i..Len(s) : s[j] \in set
    THEN CHOOSE j \in i..Len(s) : s[j] \in set /\ \A k \in i..(j - 1) : s[k] \notin set
    ELSE Len(s) + 1

RECURSIVE ParseString(_, _, _)
\* s[i] is the first symbol after the opening quote, or after the last escape;
\* one step takes the symbols up to the next quote, backslash or control character
ParseString(s, i, acc) ==
    LET j == NextIn(s, i, {"\"", "\\", "\n", "\t", "\r"})
        run == acc \o SubSeq(s, i, j - 1)
    IN IF j > Len(s) THEN ParseFail
       ELSE IF s[j] = "\"" THEN ParseOk(run, j + 1)
       ELSE IF s[j] = "\\" THEN
           IF j + 1 <= Len(s) /\ s[j + 1] \in {"\"", "\\", "/", "n", "t", "r"}
           THEN ParseString(s, j + 2, Append(run, UnescapeSym(s[j + 1])))
           ELSE ParseFail
       ELSE ParseFail

RECURSIVE ParseValue(_, _)
RECURSIVE ParseElems(_, _, _)
RECURSIVE ParseMembers(_, _, _)

\* s[i] is the first symbol of a value
ParseValue(s, i) ==
    IF i > Len(s) THEN ParseFail
    ELSE IF s[i] = "{" THEN
        LET j == SkipWs(s, i + 1) IN
        IF j <= Len(s) /\ s[j] = "}" THEN ParseOk(JMap(<<>>), j + 1)
        ELSE ParseMembers(s, j, <<>>)
    ELSE IF s[i] = "[" THEN
        LET j == SkipWs(s, i + 1) IN
        IF j <= Len(s) /\ s[j] = "]" THEN ParseOk(JList(<<>>), j + 1)
        ELSE ParseElems(s, j, <<>>)
    ELSE IF s[i] = "\"" THEN
        LET r == ParseString(s, i + 1, <<>>) IN
        IF r.ok THEN ParseOk(JStr(r.v), r.i) ELSE ParseFail
    ELSE IF s[i] = "null" THEN ParseOk(JNull, i + 1)
    ELSE IF s[i] = "true" THEN ParseOk(JBool(TRUE), i + 1)
    ELSE IF s[i] = "false" THEN ParseOk(JBool(FALSE), i + 1)
    ELSE IF s[i] \in NumberWords THEN ParseOk(JNum(s[i]), i + 1)
    ELSE ParseFail

\* s[i] is the first symbol of an array element
ParseElems(s, i, acc) ==
    LET r == ParseValue(s, i) IN
    IF ~r.ok THEN ParseFail
    ELSE LET j == SkipWs(s, r.i) IN
         IF j > Len(s) THEN ParseFail
         ELSE IF s[j] = "]" THEN ParseOk(JList(Append(acc, r.v)), j + 1)
         ELSE IF s[j] = "," THEN ParseElems(s, SkipWs(s, j + 1), Append(acc, r.v))
         ELSE ParseFail

\* s[i] is the opening quote of an object key
ParseMembers(s, i, acc) ==
    IF i > Len(s) \/ s[i] # "\"" THEN ParseFail
    ELSE LET k == ParseString(s, i + 1, <<>>) IN
         IF ~k.ok THEN ParseFail
         ELSE LET c == SkipWs(s, k.i) IN
              IF c > Len(s) \/ s[c] # ":" THEN ParseFail
              ELSE LET r == ParseValue(s, SkipWs(s, c + 1)) IN
                   IF ~r.ok THEN ParseFail
                   ELSE LET j == SkipWs(s, r.i) IN
                        IF j > Len(s) THEN ParseFail
                        ELSE IF s[j] = "}"
                             THEN ParseOk(JMap(MapPut(acc, k.v, r.v)), j + 1)
                        ELSE IF s[j] = ","
                             THEN ParseMembers(s, SkipWs(s, j + 1), MapPut(acc, k.v, r.v))
                        ELSE ParseFail

\* json.loads(s): [ok |-> TRUE, v |-> value], or [ok |-> FALSE] for JSONDecodeError
JsonLoads(s) ==
    LET r == ParseValue(s, SkipWs(s, 1)) IN
    IF r.ok /\ SkipWs(s, r.i) = Len(s) + 1 THEN [ok |-> TRUE, v |-> r.v] ELSE ParseFail

----------------------------------------------------------------------------
(* json.dumps *)

DumpsSym(c) ==
    CASE c = "\"" -> <<"\\", "\"">>
      [] c = "\\" -> <<"\\", "\\">>
      [] c = "\n" -> <<"\\", "n">>
      [] c = "\t" -> <<"\\", "t">>
      [] c = "\r" -> <<"\\", "r">>
      [] OTHER    -> <<c>>

DumpsStr(s) == <<"\"">> \o Concat([i \in 1..Len(s) |-> DumpsSym(s[i])]) \o <<"\"">>

Spaces(n) == [i \in 1..n |-> " "]

\* json.dumps(v, indent=ind) at nesting depth `level`; ind = -1 stands for indent=None
RECURSIVE Dumps(_, _, _)
Dumps(v, ind, level) ==
    LET itemSep == IF ind < 0 THEN <<",", " ">>
                   ELSE <<",", "\n">> \o Spaces(ind * (level + 1))
        open    == IF ind < 0 THEN <<>> ELSE <<"\n">> \o Spaces(ind * (level + 1))
        close   == IF ind < 0 THEN <<>> ELSE <<"\n">> \o Spaces(ind * level)
    IN CASE v.t = "null" -> <<"null">>
         [] v.t = "bool" -> IF v.b THEN <<"true">> ELSE <<"false">>
         [] v.t = "num"  -> <<v.w>>
         [] v.t = "str"  -> DumpsStr(v.s)
         [] v.t = "list" ->
                IF v.items = <<>> THEN <<"[", "]">>
                ELSE <<"[">> \o open
                     \o Join(itemSep, [i \in 1..Len(v.items) |-> Dumps(v.items[i], ind, level + 1)])
                     \o close \o <<"]">>
         [] v.t = "map"  ->
                IF v.pairs = <<>> THEN <<"{", "}">>
                ELSE <<"{">> \o open
                     \o Join(itemSep,
                             [i \in 1..Len(v.pairs) |->
                                 DumpsStr(v.pairs[i].k) \o <<":", " ">>
                                 \o Dumps(v.pairs[i].v, ind, level + 1)])
                     \o close \o <<"}">>

\* The one-line JSON text of a value, as a log writer emits it.
JsonLine(v) == Dumps(v, -1, 0)

----------------------------------------------------------------------------
(* Exceptions: a call returns Ret(v), or Raise(e) when it raises e. *)

Ret(v) == [ok |-> TRUE, v |-> v]
Raise(e) == [ok |-> FALSE, exc |-> e]

AllOk(rs) == \A i \in 1..Len(rs) : rs[i].ok
\* The first call of a loop that raised: the loop ends there.
FirstBad(rs) == rs[CHOOSE i \in 1..Len(rs) : ~rs[i].ok /\ \A j \in 1..(i - 1) : rs[j].ok]
Vals(rs) == [i \in 1..Len(rs) |-> rs[i].v]

----------------------------------------------------------------------------
(* Python str() and repr() of a JSON value *)

ReprSym(c, q) ==
    CASE c = "\\" -> <<"\\", "\\">>
      [] c = "\n" -> <<"\\", "n">>
      [] c = "\t" -> <<"\\", "t">>
      [] c = "\r" -> <<"\\", "r">>
      [] c = q    -> <<"\\", q>>
      [] OTHER    -> <<c>>

\* repr() of a str: single quotes, unless it holds a ' and no "
ReprStr(s) ==
    LET q == IF Contains(s, "'") /\ ~Contains(s, "\"") THEN "\"" ELSE "'"
    IN <<q>> \o Concat([i \in 1..Len(s) |-> ReprSym(s[i], IF q = "'" THEN "'" ELSE "")]) \o <<q>>

RECURSIVE PyRepr(_)
PyRepr(v) ==
    CASE v.t = "null" -> <<"None">>
      [] v.t = "bool" -> IF v.b THEN <<"True">> ELSE <<"False">>
      [] v.t = "num"  -> <<v.w>>
      [] v.t = "str"  -> ReprStr(v.s)
      [] v.t = "list" ->
            <<"[">> \o Join(<<",", " ">>, [i \in 1..Len(v.items) |-> PyRepr(v.items[i])]) \o <<"]">>
      [] v.t = "map"  ->
            <<"{">> \o Join(<<",", " ">>,
                            [i \in 1..Len(v.pairs) |->
                                ReprStr(v.pairs[i].k) \o <<":", " ">> \o PyRepr(v.pairs[i].v)])
            \o <<"}">>

\* str(v), and what an f-string makes of {v}
PyStr(v) == IF v.t = "str" THEN v.s ELSE PyRepr(v)

\* `for x in v`: the items of a list, the keys of a dict, the characters of a str
\* (here its symbols); TypeError for anything else
Iter(v) ==
    CASE v.t = "list" -> Ret(v.items)
      [] v.t = "map"  -> Ret([i \in 1..Len(v.pairs) |-> JStr(v.pairs[i].k)])
      [] v.t = "str"  -> Ret([i \in 1..Len(v.s) |-> JStr(<<v.s[i]>>)])
      [] OTHER        -> Raise("TypeError")

\* hash(v) succeeds: what `v in {"a", "b"}` needs
Hashable(v) == v.t \notin {"list", "map"}

\* html.escape(v): AttributeError unless v is a str
HtmlEscapeAny(v) == IF IsStr(v) THEN Ret(HtmlEscape(v.s)) ELSE Raise("AttributeError")

\* `v or default`
OrElse(v, default) == IF Truthy(v) THEN v ELSE default

----------------------------------------------------------------------------
(* The str literals of the program that it compares or looks up.  The      *)
(* underscore is a symbol of its own: render_plan_board replaces it.       *)

T_type == <<"type">>
T_timestamp == <<"timestamp">>
T_payload == <<"payload">>
T_role == <<"role">>
T_content == <<"content">>
T_text == <<"text">>
T_name == <<"name">>
T_arguments == <<"arguments">>
T_call_id == <<"call", "_", "id">>
T_output == <<"output">>
T_summary == <<"summary">>
T_message == <<"message">>
T_kind == <<"kind">>
T_info == <<"info">>
T_code == <<"code">>
T_flags == <<"flags">>
T_language == <<"language">>
T_lang == <<"lang">>
T_programming_language == <<"programming", "_", "language">>
T_plan == <<"plan">>
T_explanation == <<"explanation">>
T_status == <<"status">>
T_step == <<"step">>
T_user == <<"user">>
T_unknown == <<"unknown">>
T_na == <<"n/a">>
T_plain == <<"plain">>
T_session_meta == <<"session", "_", "meta">>
T_turn_context == <<"turn", "_", "context">>
T_response_item == <<"response", "_", "item">>
T_event_msg == <<"event", "_", "msg">>
T_function_call == <<"function", "_", "call">>
T_function_call_output == <<"function", "_", "call", "_", "output">>
T_reasoning == <<"reasoning">>
T_input_text == <<"input", "_", "text">>
T_output_text == <<"output", "_", "text">>
T_user_message == <<"user", "_", "message">>
T_agent_message == <<"agent", "_", "message">>
T_token_count == <<"token", "_", "count">>
T_update_plan == <<"update", "_", "plan">>

\* TARGET_RUN_CODE_FN
TARGET_RUN_CODE_FN ==
    <<"mcp", "_", "_", "kernelmcp", "_", "_", "vm", "_", "compile", "_", "c", "_",
      "and", "_", "upload">>

----------------------------------------------------------------------------
(* Leaf formatters *)

\* format_text_block(text): html.escape(text).replace("\n", "<br>")
format_text_block(text) ==
    LET e == HtmlEscapeAny(text) IN
    IF e.ok THEN Ret(ReplaceNewlines(e.v)) ELSE e

\* format_pre(text)
format_pre(text) ==
    IF text.t = "null" THEN <<>>
    ELSE <<"<pre>">> \o HtmlEscape(PyStr(text)) \o <<"</pre>">>

\* format_payload(payload, collapsed)
format_payload(payload, collapsed) ==
    LET pre == <<"<pre>">> \o HtmlEscape(Dumps(payload, 2, 0)) \o <<"</pre>">> IN
    IF ~collapsed THEN pre
    ELSE <<"<details><summary>Show payload</summary>">> \o pre \o <<"</details>">>

\* try_parse_json's try/except around json.loads
ParsedOrNone(r) == IF r.ok THEN r.v ELSE JNull

\* try_parse_json(value): the parsed value, JNull for Python's None
try_parse_json(value) ==
    IF value.t \in {"map", "list"} THEN value
    ELSE IF value.t # "str" THEN JNull
    ELSE LET text == Strip(value.s) IN
         IF text = <<>> THEN JNull
         ELSE ParsedOrNone(JsonLoads(text))

\* render_scalar(value)
render_scalar(value) ==
    IF value.t = "null" THEN <<"<em>null</em>">>
    ELSE IF value.t = "str" THEN
        IF Contains(value.s, "\n") THEN format_pre(value)
        ELSE <<"<span>">> \o HtmlEscape(value.s) \o <<"</span>">>
    ELSE <<"<span>">> \o HtmlEscape(PyStr(value)) \o <<"</span>">>

\* render_code_block(node): html.escape(language) raises on a language that is no str
render_code_block(node) ==
    LET code0 == OrElse(Get(node, T_code, JNull),
                        OrElse(Get(node, T_content, JNull),
                               OrElse(Get(node, T_text, JNull), JStr(<<>>))))
        code == PyStr(code0)
        language == OrElse(Get(node, T_language, JNull),
                           OrElse(Get(node, T_lang, JNull),
                                  Get(node, T_programming_language, JNull)))
        esc == HtmlEscapeAny(language)
    IN IF Truthy(language) /\ ~esc.ok THEN esc
       ELSE Ret(<<"<div class=\"code-block\">">>
                \o (IF Truthy(language)
                    THEN <<"<div class=\"code-lang\">">> \o esc.v \o <<"</div>">>
                    ELSE <<>>)
                \o <<"<pre><code>">> \o HtmlEscape(code) \o <<"</code></pre></div>">>)

\* render_structured_data(data)
RECURSIVE render_structured_data(_)
render_structured_data(data) ==
    IF IsMap(data) THEN
        IF Get(data, T_type, JNull) = JStr(T_code) THEN render_code_block(data)
        ELSE LET cells == [i \in 1..Len(data.pairs) |-> render_structured_data(data.pairs[i].v)] IN
             IF ~AllOk(cells) THEN FirstBad(cells)
             ELSE Ret(<<"<table class=\"kv-table\">">>
                      \o Concat([i \in 1..Len(data.pairs) |->
                                    <<"<tr><th>">> \o HtmlEscape(data.pairs[i].k)
                                    \o <<"</th><td>">> \o cells[i].v \o <<"</td></tr>">>])
                      \o <<"</table>">>)
    ELSE IF IsList(data) THEN
        LET cells == [i \in 1..Len(data.items) |-> render_structured_data(data.items[i])] IN
        IF ~AllOk(cells) THEN FirstBad(cells)
        ELSE Ret(<<"<ul class=\"list-nested\">">>
                 \o Concat([i \in 1..Len(cells) |-> <<"<li>">> \o cells[i].v \o <<"</li>">>])
                 \o <<"</ul>">>)
    ELSE Ret(render_scalar(data))

\* str.lower(), on the words of the model that hold upper-case letters
LowerSym(c) ==
    CASE c = "Pending" -> "pending"
      [] c = "DONE"    -> "done"
      [] OTHER         -> c

\* One <li> of render_plan_board, for a plan item that is a dict.
PlanItem(item) ==
    LET status == PyStr(Get(item, T_status, JStr(T_unknown)))
        status_class == [i \in 1..Len(status) |->
                            IF status[i] = " " THEN "-" ELSE LowerSym(status[i])]
        step == HtmlEscape(PyStr(Get(item, T_step, JStr(<<>>))))
    IN <<"<li><span class=\"status-chip status-">> \o status_class \o <<"\">">>
       \o HtmlEscape([i \in 1..Len(status) |-> IF status[i] = "_" THEN " " ELSE status[i]])
       \o <<"</span>", "<span>">> \o step \o <<"</span></li>">>

\* render_plan_board(data): the board, or <<>> for Python's None (the caller tests
\* its truth only)
render_plan_board(data) ==
    IF ~IsMap(data) THEN <<>>
    ELSE LET plan == Get(data, T_plan, JNull) IN
         IF ~IsList(plan) THEN <<>>
         ELSE LET explanation == Get(data, T_explanation, JNull)
                  dicts == SelectIdx(Len(plan.items), {i \in 1..Len(plan.items) : IsMap(plan.items[i])})
                  items == [j \in 1..Len(dicts) |-> PlanItem(plan.items[dicts[j]])]
              IN IF items = <<>> THEN <<>>
                 ELSE <<"<section class=\"plan-board\"><h4>Plan</h4>">>
                      \o (IF Truthy(explanation)
                          THEN <<"<p>">> \o HtmlEscape(PyStr(explanation)) \o <<"</p>">>
                          ELSE <<>>)
                      \o <<"<ol>">> \o Concat(items) \o <<"</ol></section>">>

\* render_reasoning_summary_item(item)
render_reasoning_summary_item(item) ==
    LET kind == IF IsMap(item) THEN Get(item, T_type, JNull) ELSE JNull
        text == IF IsMap(item) THEN Get(item, T_text, JNull) ELSE JNull
    IN IF IsMap(item) /\ IsStr(kind) /\ text.t # "null"
       THEN <<"<strong>">> \o HtmlEscape(kind.s) \o <<"</strong>: ">>
            \o ReplaceNewlines(HtmlEscape(PyStr(text)))
       ELSE HtmlEscape(PyStr(item))

\* extract_text_chunks without its `if text:` test: a chunk of an empty text
\* is kept too.
extract_text_chunks_keep_empty(content_items) ==
    LET it == Iter(content_items) IN
    IF ~it.ok THEN it
    ELSE LET chunks == it.v
             bad == {i \in 1..Len(chunks) :
                        IsMap(chunks[i]) /\ ~Hashable(Get(chunks[i], T_type, JNull))}
             keep == {i \in 1..Len(chunks) :
                        /\ IsMap(chunks[i])
                        /\ Get(chunks[i], T_type, JNull) \in {JStr(T_input_text), JStr(T_output_text)}}
             kept == SelectIdx(Len(chunks), keep)
         IN IF bad # {} THEN Raise("TypeError")
            ELSE Ret([j \in 1..Len(kept) |-> Get(chunks[kept[j]], T_text, JNull)])

\* extract_text_chunks(content_items): the list `texts`
extract_text_chunks(content_items) ==
    LET it == Iter(content_items) IN
    IF ~it.ok THEN it
    ELSE LET chunks == it.v
             \* `chunk.get("type") in {...}` hashes the type
             bad == {i \in 1..Len(chunks) :
                        IsMap(chunks[i]) /\ ~Hashable(Get(chunks[i], T_type, JNull))}
             keep == {i \in 1..Len(chunks) :
                        /\ IsMap(chunks[i])
                        /\ Get(chunks[i], T_type, JNull) \in {JStr(T_input_text), JStr(T_output_text)}
                        /\ Truthy(Get(chunks[i], T_text, JNull))}
             kept == SelectIdx(Len(chunks), keep)
         IN IF bad # {} THEN Raise("TypeError")
            ELSE Ret([j \in 1..Len(kept) |-> Get(chunks[kept[j]], T_text, JNull)])

----------------------------------------------------------------------------
(* Entry, and the record-to-Entry dispatcher.  A converter returns         *)
(* Ret(entry), Ret(None) or Raise(e).  timestamp and raw_type hold what    *)
(* the record held: any JSON value.                                        *)

None == JNull

Entry(timestamp, label, body_html, css_class, raw_type, lineno, extra_classes) ==
    [timestamp |-> timestamp, label |-> label, body_html |-> body_html,
     css_class |-> css_class, raw_type |-> raw_type, lineno |-> lineno,
     extra_classes |-> extra_classes]

\* convert_response_item, subtype "message"
ConvertMessage(payload, timestamp, role, lineno) ==
    LET texts == extract_text_chunks(OrElse(Get(payload, T_content, JNull), JList(<<>>))) IN
    IF ~texts.ok THEN texts
    ELSE IF texts.v = <<>> THEN Ret(None)
    ELSE LET blocks == [i \in 1..Len(texts.v) |-> format_text_block(texts.v[i])] IN
         IF ~AllOk(blocks) THEN FirstBad(blocks)
         ELSE Ret(Entry(timestamp,
                        <<"Message (middot) ">> \o PyStr(role),
                        Join(<<"<hr>">>, Vals(blocks)),
                        IF role = JStr(T_user) THEN "entry-user" ELSE "entry-assistant",
                        JStr(T_response_item \o <<"/", "message">>),
                        lineno, <<>>))

\* convert_response_item, subtype "function_call", with the arguments rendered
\* only when there is no plan board (`elif args_html:` for the last `if`)
FunctionCallEntryExclusive(timestamp, lineno, name, args, call_id, parsed_args, args_html) ==
    LET plan_html == IF name = JStr(T_update_plan) THEN render_plan_board(parsed_args) ELSE <<>>
        name_html == HtmlEscapeAny(name)
        id_html == HtmlEscapeAny(call_id)
    IN IF ~args_html.ok THEN args_html
       ELSE IF ~name_html.ok THEN name_html
       ELSE IF ~id_html.ok THEN id_html
       ELSE Ret(Entry(timestamp,
                      <<"Function call">>,
                      <<"<div><strong>Call:</strong> ">> \o name_html.v \o <<"</div>">>
                      \o <<"<div><strong>call_id:</strong> ">> \o id_html.v \o <<"</div>">>
                      \o (IF plan_html # <<>> THEN plan_html ELSE args_html.v),
                      "entry-tool",
                      JStr(T_response_item \o <<"/">> \o T_function_call),
                      lineno, <<>>))

\* convert_response_item, subtype "function_call"
\* (the statements after `parsed_args = try_parse_json(args)`)
FunctionCallEntry(timestamp, lineno, name, args, call_id, parsed_args, args_html) ==
    LET plan_html == IF name = JStr(T_update_plan) THEN render_plan_board(parsed_args) ELSE <<>>
        name_html == HtmlEscapeAny(name)
        id_html == HtmlEscapeAny(call_id)
    IN IF ~args_html.ok THEN args_html
       ELSE IF ~name_html.ok THEN name_html
       ELSE IF ~id_html.ok THEN id_html
       ELSE Ret(Entry(timestamp,
                      <<"Function call">>,
                      <<"<div><strong>Call:</strong> ">> \o name_html.v \o <<"</div>">>
                      \o <<"<div><strong>call_id:</strong> ">> \o id_html.v \o <<"</div>">>
                      \o plan_html \o args_html.v,
                      "entry-tool",
                      JStr(T_response_item \o <<"/">> \o T_function_call),
                      lineno, <<>>))

\* args_html of the function_call branch
ArgsHtml(args, parsed_args) ==
    IF parsed_args # None THEN render_structured_data(parsed_args)
    ELSE IF Truthy(args) THEN Ret(format_pre(args))
    ELSE Ret(<<>>)

FunctionCallParsed(timestamp, lineno, name, args, call_id, parsed_args) ==
    FunctionCallEntry(timestamp, lineno, name, args, call_id, parsed_args,
                      ArgsHtml(args, parsed_args))

ConvertFunctionCall(payload, timestamp, lineno) ==
    LET args == OrElse(Get(payload, T_arguments, JNull), JStr(<<>>)) IN
    FunctionCallParsed(timestamp, lineno, Get(payload, T_name, JStr(T_unknown)), args,
                       Get(payload, T_call_id, JStr(T_na)), try_parse_json(args))

\* convert_response_item, subtype "function_call_output"
\* (the statements after output_html is built)
FunctionOutputEntry(timestamp, lineno, call_id, output_html) ==
    LET id_html == HtmlEscapeAny(call_id)
    IN IF ~output_html.ok THEN output_html
       ELSE IF ~id_html.ok THEN id_html
       ELSE Ret(Entry(timestamp,
                      <<"Function output">>,
                      <<"<div><strong>call_id:</strong> ">> \o id_html.v \o <<"</div>">>
                      \o output_html.v,
                      "entry-tool",
                      JStr(T_response_item \o <<"/">> \o T_function_call_output),
                      lineno, <<>>))

\* output_html of the function_call_output branch
OutputHtml(output, parsed_output) ==
    IF parsed_output # None THEN render_structured_data(parsed_output)
    ELSE IF output = None THEN Ret(<<"<em>no output</em>">>)
    ELSE Ret(render_scalar(output))

ConvertFunctionCallOutput(payload, timestamp, lineno) ==
    LET output == Get(payload, T_output, JNull) IN
    FunctionOutputEntry(timestamp, lineno, Get(payload, T_call_id, JStr(T_na)),
                        OutputHtml(output, try_parse_json(output)))

\* convert_response_item, subtype "reasoning"
ConvertReasoning(payload, timestamp, lineno) ==
    LET summary == OrElse(Get(payload, T_summary, JNull), JList(<<>>))
        it == Iter(summary)
    IN IF Truthy(summary) /\ ~it.ok THEN it
       ELSE Ret(Entry(timestamp,
                      <<"Reasoning note">>,
                      IF Truthy(summary)
                      THEN <<"<ul>">>
                           \o Concat([i \in 1..Len(it.v) |->
                                         <<"<li>">> \o render_reasoning_summary_item(it.v[i])
                                         \o <<"</li>">>])
                           \o <<"</ul>">>
                      ELSE <<"<em>No public summary (content encrypted)</em>">>,
                      "entry-assistant",
                      JStr(T_response_item \o <<"/">> \o T_reasoning),
                      lineno, <<"collapsible-meta">>))

\* convert_response_item(record, lineno), on a record that is a dict
convert_response_item(record, lineno) ==
    LET payload == OrElse(Get(record, T_payload, JNull), JMap(<<>>)) IN
    IF ~IsMap(payload) THEN Raise("AttributeError")
    ELSE LET subtype == Get(payload, T_type, None)
             timestamp == Get(record, T_timestamp, JStr(T_unknown))
             role == Get(payload, T_role, JStr(T_na))
         IN IF subtype = JStr(T_message) THEN ConvertMessage(payload, timestamp, role, lineno)
            ELSE IF subtype = JStr(T_function_call)
                 THEN ConvertFunctionCall(payload, timestamp, lineno)
            ELSE IF subtype = JStr(T_function_call_output)
                 THEN ConvertFunctionCallOutput(payload, timestamp, lineno)
            ELSE IF subtype = JStr(T_reasoning) THEN ConvertReasoning(payload, timestamp, lineno)
            ELSE Ret(Entry(timestamp,
                           <<"Response item (">> \o PyStr(OrElse(subtype, JStr(T_unknown))) \o <<")">>,
                           format_payload(payload, FALSE),
                           "entry-system",
                           JStr(T_response_item \o <<"/">> \o T_unknown),
                           lineno, <<>>))

\* convert_event_msg(record, lineno), on a record that is a dict
convert_event_msg(record, lineno) ==
    LET payload == OrElse(Get(record, T_payload, JNull), JMap(<<>>)) IN
    IF ~IsMap(payload) THEN Raise("AttributeError")
    ELSE LET subtype == Get(payload, T_type, None)
             timestamp == Get(record, T_timestamp, JStr(T_unknown))
         IN \* `subtype in {"user_message", "agent_message"}` hashes subtype
            IF ~Hashable(subtype) THEN Raise("TypeError")
            ELSE IF subtype \in {JStr(T_user_message), JStr(T_agent_message)} THEN
                LET message == Get(payload, T_message, JStr(<<>>))
                    kind == HtmlEscapeAny(Get(payload, T_kind, JStr(T_plain)))
                IN IF ~kind.ok THEN kind
                   ELSE Ret(Entry(timestamp,
                                  <<"Event (middot) ">> \o PyStr(subtype),
                                  <<"<div><strong>Kind:</strong> ">> \o kind.v \o <<"</div>">>
                                  \o format_pre(message),
                                  IF subtype = JStr(T_user_message)
                                  THEN "entry-user" ELSE "entry-assistant",
                                  JStr(T_event_msg \o <<"/">> \o PyStr(subtype)),
                                  lineno, <<>>))
            ELSE IF subtype = JStr(T_token_count) THEN
                Ret(Entry(timestamp,
                          <<"Token usage">>,
                          format_payload(OrElse(Get(payload, T_info, JNull), JMap(<<>>)), TRUE),
                          "entry-metric",
                          JStr(T_event_msg \o <<"/">> \o T_token_count),
                          lineno, <<"collapsible-meta">>))
            ELSE Ret(Entry(timestamp,
                           <<"Event (">> \o PyStr(OrElse(subtype, JStr(T_unknown))) \o <<")">>,
                           format_payload(payload, FALSE),
                           "entry-system",
                           JStr(T_event_msg \o <<"/">> \o PyStr(OrElse(subtype, JStr(T_unknown)))),
                           lineno, <<>>))

\* convert_record(record, lineno): record.get raises unless record is a dict
convert_record(record, lineno) ==
    IF ~IsMap(record) THEN Raise("AttributeError")
    ELSE LET rectype == Get(record, T_type, JStr(T_unknown))
             timestamp == Get(record, T_timestamp, JStr(T_unknown))
             payload == Get(record, T_payload, JMap(<<>>))
         IN IF rectype = JStr(T_session_meta) THEN
                Ret(Entry(timestamp, <<"Session metadata">>, format_payload(payload, TRUE),
                          "entry-system", rectype, lineno, <<>>))
            ELSE IF rectype = JStr(T_turn_context) THEN
                Ret(Entry(timestamp, <<"Turn context">>, format_payload(payload, TRUE),
                          "entry-system", rectype, lineno, <<"collapsible-meta">>))
            ELSE IF rectype = JStr(T_response_item) THEN convert_response_item(record, lineno)
            ELSE IF rectype = JStr(T_event_msg) THEN convert_event_msg(record, lineno)
            ELSE Ret(Entry(timestamp, <<"Unhandled type: ">> \o PyStr(rectype),
                           format_payload(payload, FALSE),
                           "entry-system", rectype, lineno, <<>>))

\* What load_entries appends for a line json.loads rejects.  The body is the
\* escaped message of the JSONDecodeError, here one word.
MalformedEntry(lineno) ==
    Entry(JStr(T_na), <<"Malformed JSON">>,
          <<"<pre>">> \o HtmlEscape(<<"JSONDecodeError">>) \o <<"</pre>">>,
          "entry-error", JStr(<<"error">>), lineno, <<>>)

----------------------------------------------------------------------------
(* The page assembler *)

\* entry_to_html(entry)
entry_to_html(entry) ==
    LET classes == Strip(Join(<<" ">>, <<<<entry.css_class>>>>
                                       \o [i \in 1..Len(entry.extra_classes) |->
                                              <<entry.extra_classes[i]>>]))
        ts == HtmlEscapeAny(entry.timestamp)
        rt == HtmlEscapeAny(entry.raw_type)
    IN IF ~ts.ok THEN ts
       ELSE IF ~rt.ok THEN rt
       ELSE Ret(<<"<article class=\"entry ">> \o classes \o <<"\">", "<header>", "<div>">>
                \o HtmlEscape(entry.label) \o <<"</div>", "<small>">>
                \o ts.v \o <<" (middot) line ", ToString(entry.lineno), " (middot) ">>
                \o rt.v \o <<"</small>", "</header>", "<div>">>
                \o entry.body_html \o <<"</div>", "</article>">>)

\* The path of the log, as main resolves it.
source_path == <<"/", "tmp", "/", "session.jsonl">>

\* build_page(entries, source_path): the document, its fixed parts abridged
build_page(es, path) ==
    LET cards == [i \in 1..Len(es) |-> entry_to_html(es[i])] IN
    IF ~AllOk(cards) THEN FirstBad(cards)
    ELSE Ret(<<"<!doctype html><html><head>(title, BASE_CSS)</head><body><header>(nav)",
               "<p>Source: ">> \o HtmlEscape(path)
             \o <<" (middot) ", ToString(Len(es)), " entries</p>", "</header>",
                  "<div class=\"container\">">>
             \o Join(<<"\n">>, Vals(cards))
             \o <<"</div>", "<script>(toggle-meta)</script></body></html>">>)

----------------------------------------------------------------------------
(* The upload extractor *)

RunCodeUpload(index, timestamp, lineno, code, flags) ==
    [index |-> index, timestamp |-> timestamp, lineno |-> lineno,
     code |-> code, flags |-> flags]

\* code_str without the None test: str(None)
CodeStrOfNone(args) == PyStr(Get(args, T_code, JStr(<<>>)))

\* code_str of extract_run_code_uploads
CodeStr(args) ==
    LET code_value == Get(args, T_code, JStr(<<>>)) IN
    IF code_value = None THEN <<>> ELSE PyStr(code_value)

\* flags_str of extract_run_code_uploads (a JSON value is never a tuple)
FlagsStr(args) ==
    LET flags_value == Get(args, T_flags, JStr(<<>>)) IN
    IF IsList(flags_value)
    THEN Join(<<"\n">>, [i \in 1..Len(flags_value.items) |-> PyStr(flags_value.items[i])])
    ELSE IF flags_value = None THEN <<>> ELSE PyStr(flags_value)

\* UploadOf with the index taken from the line number
UploadOfLineIndex(record, args, lineno, n) ==
    IF ~IsMap(args) THEN Ret(<<>>)
    ELSE Ret(<<RunCodeUpload(lineno, Get(record, T_timestamp, JStr(T_unknown)), lineno,
                             CodeStr(args), FlagsStr(args))>>)

\* The loop body from `args = try_parse_json(args_raw)` on, n uploads so far
UploadOf(record, args, lineno, n) ==
    IF ~IsMap(args) THEN Ret(<<>>)
    ELSE Ret(<<RunCodeUpload(n + 1, Get(record, T_timestamp, JStr(T_unknown)), lineno,
                             CodeStr(args), FlagsStr(args))>>)

\* The loop body from `record.get("type")` on; record.get and payload.get raise
\* unless the value is a dict
ExtractRecord(record, lineno, n) ==
    IF ~IsMap(record) THEN Raise("AttributeError")
    ELSE IF Get(record, T_type, None) # JStr(T_response_item) THEN Ret(<<>>)
    ELSE LET payload == OrElse(Get(record, T_payload, None), JMap(<<>>)) IN
         IF ~IsMap(payload) THEN Raise("AttributeError")
         ELSE IF Get(payload, T_type, None) # JStr(T_function_call) THEN Ret(<<>>)
         ELSE IF Get(payload, T_name, None) # JStr(TARGET_RUN_CODE_FN) THEN Ret(<<>>)
         ELSE UploadOf(record, try_parse_json(Get(payload, T_arguments, None)), lineno, n)

\* The loop body from json.loads' outcome on: a JSONDecodeError skips the line
ExtractParsed(record, lineno, n) ==
    IF ~record.ok THEN Ret(<<>>) ELSE ExtractRecord(record.v, lineno, n)

\* One iteration of extract_run_code_uploads' loop, on line number lineno with n
\* uploads so far: what it appends (<<>> or one upload), or the exception that
\* leaves the loop.
ExtractLine(line, lineno, n) ==
    LET text == Strip(line) IN
    IF text = <<>> THEN Ret(<<>>) ELSE ExtractParsed(JsonLoads(text), lineno, n)

\* len(s) of a str: the characters of its symbols
RECURSIVE CharLen(_)
CharLen(s) == IF s = <<>> THEN 0 ELSE Len(Head(s)) + CharLen(Tail(s))

\* code_details / flags_details of render_upload_summary
UploadDetails(text) ==
    IF text # <<>>
    THEN <<"<details><summary>", ToString(CharLen(text)), " chars</summary>", "<pre>">>
         \o HtmlEscape(text) \o <<"</pre></details>">>
    ELSE <<"<em>empty</em>">>

\* One row of render_upload_summary: html.escape(upload.timestamp) raises
\* unless the timestamp is a str
UploadRowOf(upload, ts) ==
    IF ~ts.ok THEN ts
    ELSE Ret(<<"<tr>", "<td>", ToString(upload.index), "</td>", "<td>">> \o ts.v
             \o <<"</td>", "<td>line ", ToString(upload.lineno), "</td>", "<td>">>
             \o UploadDetails(upload.code) \o <<"</td>", "<td>">>
             \o UploadDetails(upload.flags) \o <<"</td>", "</tr>">>)

UploadRow(upload) == UploadRowOf(upload, HtmlEscapeAny(upload.timestamp))

\* The section of render_upload_summary around the rows
UploadTable(ups, rows) ==
    IF ~AllOk(rows) THEN FirstBad(rows)
    ELSE Ret(<<"<section class='panel'><h2>Captured uploads (", ToString(Len(ups)), ")</h2>",
               "<table class='uploads-table'>", "<thead>(#, Timestamp, Location, Code, Flags)</thead>",
               "<tbody>">>
             \o Concat(Vals(rows))
             \o <<"</tbody>", "</table>", "</section>">>)

\* render_upload_summary(uploads)
render_upload_summary(ups) ==
    IF ups = <<>>
    THEN Ret(<<"<section class='panel'>", "<h2>Captured uploads</h2>", "<p>No calls to ">>
             \o TARGET_RUN_CODE_FN \o <<" were found in this log.</p>", "</section>">>)
    ELSE UploadTable(ups, [i \in 1..Len(ups) |-> UploadRow(ups[i])])

----------------------------------------------------------------------------
(* git, as build_upload_git_history drives it.  A repository is            *)
(*   [init, work, index, commits]: whether `git init` ran, the two files   *)
(* of the working tree, the staged tree, and the commits of HEAD's history *)
(* oldest first, each [tree, message].  A commit's id is made of its       *)
(* position.  The patch `git show` prints is abridged to whole-file        *)
(* replacement hunks.  In a diff text "+", "-", "@" and " " are symbols of *)
(* their own: render_diff tells the lines apart by them.                   *)

NoFile == [exists |-> FALSE, text |-> <<>>]
File(text) == [exists |-> TRUE, text |-> text]

EmptyRepo ==
    [init |-> FALSE,
     work |-> [code |-> NoFile, flags |-> NoFile],
     index |-> [code |-> NoFile, flags |-> NoFile],
     commits |-> <<>>]

\* code_path.write_text / flags_path.write_text
WriteCodeFile(r, text) == [r EXCEPT !.work.code = File(text)]
WriteFlagsFile(r, text) == [r EXCEPT !.work.flags = File(text)]

\* git init -q
GitInit(r) == [r EXCEPT !.init = TRUE]

\* git add code.c flags.txt
GitAdd(r) == [r EXCEPT !.index = r.work]

\* git commit -m <message>, without --allow-empty, by a caller that goes on
\* when nothing was staged
GitCommitNonEmpty(r, message) ==
    IF r.commits # <<>> /\ r.commits[Len(r.commits)].tree = r.index
    THEN r
    ELSE [r EXCEPT !.commits = Append(@, [tree |-> r.index, message |-> message])]

\* git commit -m <message> --allow-empty
GitCommit(r, message) ==
    [r EXCEPT !.commits = Append(@, [tree |-> r.index, message |-> message])]

RevId(i) == ToString(i) \o "c0ffee5"
ShortId(i) == ToString(i) \o "c0f"
\* The commit a rev names: a rev is a text of one word
CommitOf(r, rev) == CHOOSE i \in 1..Len(r.commits) : <<RevId(i)>> = rev

\* stdout of git rev-list --reverse HEAD
GitRevList(r) == Concat([i \in 1..Len(r.commits) |-> <<RevId(i), "\n">>])

\* stdout of git rev-parse --short <rev>
GitRevParseShort(r, rev) == <<ShortId(CommitOf(r, rev)), "\n">>

\* str.splitlines(): the lines of s without their "\n"; no empty last line
SplitLines(s) ==
    LET ends == SelectIdx(Len(s), {i \in 1..Len(s) : s[i] = "\n"})
        start(j) == IF j = 1 THEN 1 ELSE ends[j - 1] + 1
        full == [j \in 1..Len(ends) |-> SubSeq(s, start(j), ends[j] - 1)]
        rest == SubSeq(s, start(Len(ends) + 1), Len(s))
    IN IF rest = <<>> THEN full ELSE Append(full, rest)

\* The lines of a text, each with its "\n"
UnsplitLines(lines) == Concat([i \in 1..Len(lines) |-> lines[i] \o <<"\n">>])

\* Each line of a text behind a marker
Marked(mark, text) ==
    LET lines == SplitLines(text) IN
    UnsplitLines([i \in 1..Len(lines) |-> <<mark>> \o lines[i]])

\* The patch of one file between two trees
FileDiff(name, old, new) ==
    IF old = new THEN <<>>
    ELSE <<"diff", " ", "-", "-", "git", " ", "a/", name, " ", "b/", name, "\n">>
         \o (IF old.exists THEN <<"-", "-", "-", " ", "a/", name, "\n">>
             ELSE <<"new file mode", "\n", "-", "-", "-", " ", "/dev/null", "\n">>)
         \o <<"+", "+", "+", " ", "b/", name, "\n">>
         \o (IF old.text = new.text THEN <<>>
             ELSE <<"@", "@", " ", "-", "1", " ", "+", "1", " ", "@", "@", "\n">>
                  \o Marked("-", old.text) \o Marked("+", new.text))

ParentTree(r, i) ==
    IF i = 1 THEN [code |-> NoFile, flags |-> NoFile] ELSE r.commits[i - 1].tree

\* stdout of git show --stat --patch <rev>, for the i-th commit
ShowCommit(r, i) ==
    <<"commit", " ", RevId(i), "\n", "\n", " ", " ", " ", " ">> \o r.commits[i].message
    \o <<"\n">>
    \o (IF ParentTree(r, i) = r.commits[i].tree THEN <<>>
        ELSE <<"-", "-", "-", "\n", " ", "(files changed)", "\n">>)
    \o <<"\n">>
    \o FileDiff("code.c", ParentTree(r, i).code, r.commits[i].tree.code)
    \o FileDiff("flags.txt", ParentTree(r, i).flags, r.commits[i].tree.flags)

GitShow(r, rev) == ShowCommit(r, CommitOf(r, rev))

\* The argument lists of run_git_command's callers
GIT_INIT == <<"init", " ", "-", "q">>
GIT_ADD == <<"add", " ", "code.c", " ", "flags.txt">>
GIT_COMMIT(message) == <<"commit", " ", "-", "m", " ">> \o message \o <<" ", "-", "-", "allow", "-", "empty">>
GIT_REV_LIST == <<"rev", "-", "list", " ", "-", "-", "reverse", " ", "HEAD">>
GIT_REV_PARSE(rev) == <<"rev", "-", "parse", " ", "-", "-", "short", " ">> \o rev
GIT_SHOW(rev) == <<"show", " ", "-", "-", "stat", " ", "-", "-", "patch", " ">> \o rev

\* commit_message of build_upload_git_history
CommitMessage(upload) == <<"upload", " ", ToString(upload.index)>>

\* What a failing git writes to stderr
GitStderr == { <<>>, <<" ", "\n">>, <<"fatal:", " ", "unable", " ", "to", " ", "write", "\n">> }

\* An exception with its message
Exc(type, msg) == [ok |-> FALSE, exc |-> type, msg |-> msg]

\* run_git_command without the returncode test
run_git_command_unchecked(args, proc) ==
    IF ~proc.found THEN Exc("FileNotFoundError", <<"No such file or directory: 'git'">>)
    ELSE Ret(proc.stdout)

\* run_git_command(args, cwd, env), given what subprocess.run came to: proc.found
\* is FALSE when there is no git executable (subprocess.run raises
\* FileNotFoundError)
run_git_command(args, proc) ==
    IF ~proc.found THEN Exc("FileNotFoundError", <<"No such file or directory: 'git'">>)
    ELSE IF proc.returncode # 0
    THEN Exc("RuntimeError",
             <<"git", " ">> \o args \o <<":", " ">>
             \o (IF Strip(proc.stderr) # <<>> THEN Strip(proc.stderr)
                 ELSE <<"git command failed">>))
    ELSE Ret(proc.stdout)

\* revs of build_upload_git_history
RevsOf(revs_output) ==
    LET lines == SplitLines(Strip(revs_output))
        keep == SelectIdx(Len(lines), {i \in 1..Len(lines) : lines[i] # <<>>})
    IN [j \in 1..Len(keep) |-> lines[keep[j]]]

\* label of build_upload_git_history
DiffLabel(short_rev, upload) == short_rev \o <<" (middot) upload ", ToString(upload.index)>>

\* A temporary directory of one fixed name
NewAreaFixedName(dirs) == 1

\* tempfile.TemporaryDirectory().__enter__: a directory no one has
NewArea(dirs) == CHOOSE d \in 1..(Cardinality(dirs) + 1) : d \notin dirs

\* A cleanup that runs on return only
TempDirExitOnReturn(dirs, dir, raised) == IF raised THEN dirs ELSE dirs \ {dir}

\* tempfile.TemporaryDirectory().__exit__: the directory is removed, whether the
\* block returned or raised
TempDirExit(dirs, dir, raised) == dirs \ {dir}

----------------------------------------------------------------------------
(* The upload/diff report *)

\* line.startswith(prefix), for a prefix made of symbols
StartsWith(line, prefix) ==
    Len(line) >= Len(prefix) /\ SubSeq(line, 1, Len(prefix)) = prefix

\* cls of render_diff
DiffClass(line) ==
    IF StartsWith(line, <<"@", "@">>) THEN "diff-hunk"
    ELSE IF StartsWith(line, <<"+", "+", "+", " ">>) \/ StartsWith(line, <<"-", "-", "-", " ">>)
         THEN "diff-file"
    ELSE IF StartsWith(line, <<"+">>) /\ ~StartsWith(line, <<"+", "+", "+">>) THEN "diff-add"
    ELSE IF StartsWith(line, <<"-">>) /\ ~StartsWith(line, <<"-", "-", "-">>) THEN "diff-del"
    ELSE "diff-context"

\* One <span> of render_diff
DiffSpan(line) ==
    <<"<span class=\"", DiffClass(line), "\">">>
    \o (IF HtmlEscape(line) # <<>> THEN HtmlEscape(line) ELSE <<"&nbsp;">>)
    \o <<"</span>">>

\* render_diff(diff_text)
render_diff(diff_text) ==
    IF diff_text = <<>>
    THEN <<"<pre class=\"diff-block\"><span class=\"diff-context\">(no diff)</span></pre>">>
    ELSE LET lines == SplitLines(diff_text) IN
         <<"<pre class=\"diff-block\">">>
         \o Concat([i \in 1..Len(lines) |-> DiffSpan(lines[i])])
         \o <<"</pre>">>

\* One diff card of build_run_code_page
DiffCard(d) ==
    <<"<div class='diff-card'><h3>">> \o HtmlEscape(d.label) \o <<"</h3>">>
    \o render_diff(d.diff) \o <<"</div>">>

\* diffs_section of build_run_code_page when build_upload_git_history returned
DiffsSection(ds) ==
    <<"<section class='panel'><h2>Commit diffs</h2>">>
    \o Concat([i \in 1..Len(ds) |-> DiffCard(ds[i])])
    \o <<"</section>">>

\* diffs_section of build_run_code_page's except RuntimeError branch; str(exc) is
\* the message
ErrorBanner(msg) ==
    <<"<section class='panel'>", "<h2>Commit diffs</h2>",
      "<div class='error-banner'>Failed to build git history: ">>
    \o HtmlEscape(msg) \o <<"</div>", "</section>">>

\* The document build_run_code_page returns, its fixed parts abridged
RunCodeDocument(path, total, summary, diffs_sec) ==
    <<"<!doctype html><html><head>(title, BASE_CSS)</head><body><header>(nav)",
      "<p>Source: ">> \o HtmlEscape(path)
    \o <<" (middot) ", ToString(total), " uploads</p>", "</header>", "<div class=\"container\">">>
    \o summary \o diffs_sec
    \o <<"</div>", "</body></html>">>

\* The symbols of the model that hold a middle dot, U+00B7, written (middot)
MiddotSymbols ==
    {"Message (middot) ", "Event (middot) ", " (middot) line ", " (middot) ", " (middot) upload "}

\* The characters of a symbol: "(middot)" stands for one character
SymChars(c) == IF c \in MiddotSymbols THEN Len(c) - 7 ELSE Len(c)

\* The bytes of a symbol's UTF-8 encoding: one per ASCII character, two for the
\* middle dot
SymBytes(c) == IF c \in MiddotSymbols THEN SymChars(c) + 1 ELSE SymChars(c)

\* len(body) of the str not yet encoded
RECURSIVE StrLen(_)
StrLen(s) ==
    IF s = <<>> THEN 0
    ELSE IF Len(s) = 1 THEN SymChars(s[1])
    ELSE StrLen(SubSeq(s, 1, Len(s) \div 2)) + StrLen(SubSeq(s, Len(s) \div 2 + 1, Len(s)))

\* len(body) of body = body_builder().encode("utf-8")
RECURSIVE Utf8Len(_)
Utf8Len(s) ==
    IF s = <<>> THEN 0
    ELSE IF Len(s) = 1 THEN SymBytes(s[1])
    ELSE Utf8Len(SubSeq(s, 1, Len(s) \div 2)) + Utf8Len(SubSeq(s, Len(s) \div 2 + 1, Len(s)))

\* self.path of the requests do_GET builds a page for
IndexPaths == {<<"/">>, <<"/", "index.html">>}
RunCodePath == <<"/", "run_code_log.html">>

\* do_GET's 200 answer: the status line, the two headers and the body written.
\* body is the text whose UTF-8 encoding goes to wfile.
Response200(body) ==
    [status |-> 200, content_type |-> "text/html; charset=utf-8",
     content_length |-> Utf8Len(body), body |-> body]

\* send_error(404, "Not Found"): the error page of http.server
Response404 ==
    [status |-> 404, content_type |-> "text/html;charset=utf-8",
     content_length |-> Utf8Len(<<"(error page: 404 Not Found)">>),
     body |-> <<"(error page: 404 Not Found)">>]

NoResponse == [status |-> 0, content_type |-> "", content_length |-> 0, body |-> <<>>]

\* log_message, called by send_response and send_error through log_request
LogLine(request_path, code) ==
    <<"Server: \"GET ">> \o request_path \o <<" HTTP/1.1\" ", code, " -", "\n">>

----------------------------------------------------------------------------
(* The lines a log may hold *)

Rec(type, timestamp, payload) ==
    JMap(<<KV(T_type, JStr(type)), KV(T_timestamp, W(timestamp)), KV(T_payload, payload)>>)

Chunk(type, text) == JMap(<<KV(T_type, JStr(type)), KV(T_text, text)>>)

Message(role, content) ==
    JMap(<<KV(T_type, JStr(T_message)), KV(T_role, role), KV(T_content, content)>>)

FunctionCall(name, arguments) ==
    JMap(<<KV(T_type, JStr(T_function_call)), KV(T_name, name),
           KV(T_arguments, arguments), KV(T_call_id, W("c1"))>>)

PlanArgs ==
    JMap(<<KV(T_plan, JList(<<JMap(<<KV(T_step, JStr(<<"a", "<", "b">>)),
                                     KV(T_status, JStr(<<"in", "_", "progress">>))>>),
                              JMap(<<KV(T_step, W("c")), KV(T_status, W("Pending"))>>)>>))>>)

\* Well-formed records, one per shape the dispatcher knows.
GoodRecords ==
    { Rec(T_session_meta, "t0", JMap(<<KV(<<"cwd">>, JStr(<<"/", "w">>))>>)),
      Rec(T_turn_context, "t1", JMap(<<KV(<<"model">>, W("m"))>>)),
      Rec(T_response_item, "t2",
          Message(JStr(T_user), JList(<<Chunk(T_input_text, JStr(<<"a", "<", "b">>)),
                                        Chunk(T_input_text, JStr(<<"c", "\n", "d">>))>>))),
      Rec(T_response_item, "t3", Message(W("assistant"), JList(<<Chunk(T_output_text, W("e"))>>))),
      Rec(T_response_item, "t4", Message(W("assistant"), JList(<<>>))),
      Rec(T_response_item, "t5",
          Message(JStr(T_user), JList(<<Chunk(T_input_text, JStr(<<>>)), W("x"),
                                        Chunk(<<"image">>, W("f"))>>))),
      Rec(T_response_item, "t6",
          JMap(<<KV(T_type, JStr(T_message)), KV(T_role, JStr(T_user))>>)),
      Rec(T_response_item, "t7", FunctionCall(JStr(T_update_plan), JStr(JsonLine(PlanArgs)))),
      Rec(T_response_item, "t8", FunctionCall(W("shell"), JStr(<<"{", "oops">>))),
      Rec(T_response_item, "t9",
          JMap(<<KV(T_type, JStr(T_function_call_output)), KV(T_call_id, W("c1")),
                 KV(T_output, JStr(<<"line1", "\n", "line2">>))>>)),
      Rec(T_response_item, "t10",
          JMap(<<KV(T_type, JStr(T_reasoning)),
                 KV(T_summary, JList(<<Chunk(<<"summary", "_", "text">>, W("thinking"))>>))>>)),
      Rec(T_event_msg, "t11",
          JMap(<<KV(T_type, JStr(T_user_message)), KV(T_kind, JStr(T_plain)),
                 KV(T_message, W("hi"))>>)),
      Rec(T_event_msg, "t12",
          JMap(<<KV(T_type, JStr(T_token_count)), KV(T_info, JMap(<<KV(<<"total">>, JNum("5"))>>))>>)),
      JMap(<<KV(T_timestamp, W("t13")), KV(T_payload, JNull)>>) }

\* Valid JSON of a shape the log format does not describe: a line that is no
\* object, and objects with a field of an unexpected JSON type.
OddRecords ==
    { JList(<<JNum("5")>>),
      JNull,
      JMap(<<KV(T_type, JStr(T_session_meta)), KV(T_timestamp, JNum("5")),
             KV(T_payload, JMap(<<>>))>>),
      JMap(<<KV(T_type, JList(<<>>)), KV(T_timestamp, W("t")), KV(T_payload, JMap(<<>>))>>),
      Rec(T_response_item, "t", JList(<<JNum("7")>>)),
      Rec(T_response_item, "t", FunctionCall(JNum("5"), JStr(<<"{", "}">>))),
      Rec(T_response_item, "t", Message(JNum("5"), JList(<<Chunk(T_output_text, W("g"))>>))),
      Rec(T_event_msg, "t",
          JMap(<<KV(T_type, JStr(T_agent_message)), KV(T_kind, JNull), KV(T_message, W("m"))>>)),
      Rec(T_event_msg, "t", JMap(<<KV(T_type, JMap(<<>>))>>)) }

\* Lines json.loads rejects.
BadLines ==
    { <<"{", "\"", "type", "\"", ":">>,
      <<"not", " ", "json">> }

\* Lines str.strip() empties.
BlankLines == { <<>>, <<" ", "\t">> }

LogLines ==
    {JsonLine(v) : v \in GoodRecords \cup OddRecords} \cup BadLines \cup BlankLines

\* The most lines of a log.
MaxLines == 2

----------------------------------------------------------------------------
(* main's timeline: load_entries, one loop iteration a step, then          *)
(* build_page on what it returned.                                         *)

\* No server: the log exists, nothing was printed, the process runs, the port is
\* free and no request was received
NoServer ==
    /\ exists = TRUE
    /\ stderr = <<>>
    /\ sys_stdout = <<>>
    /\ exit_status = <<>>
    /\ bound = FALSE
    /\ served = <<>>
    /\ cur = 0
    /\ ctx = <<>>
    /\ disk = <<>>

\* No build_upload_git_history has run
HistoryIdle ==
    /\ areas = {}
    /\ tmpdir = 0
    /\ repo = EmptyRepo
    /\ gitlog = <<>>
    /\ idx = 0
    /\ revs = <<>>
    /\ diffs = <<>>
    /\ short = <<>>

NoOutcome == [kind |-> "none"]
Returned(fn, v) == [kind |-> "return", fn |-> fn, v |-> v]
Raised(fn, e) == [kind |-> "raise", fn |-> fn, exc |-> e]

\* `if entry: entries.append(entry)`: what the iteration appends
Appended(entry) ==
    IF ~entry.ok THEN entry
    ELSE IF entry.v # None THEN Ret(<<entry.v>>)
    ELSE Ret(<<>>)

\* The loop body from json.loads' outcome on: the except branch appends the
\* Malformed JSON Entry, the try branch converts the record.
LoadRecord(record, lineno) ==
    IF ~record.ok THEN Ret(<<MalformedEntry(lineno)>>)
    ELSE Appended(convert_record(record.v, lineno))

\* load_entries' loop body without its try/except: the JSONDecodeError leaves
\* the loop.
LoadLineNoCatch(line, lineno) ==
    LET text == Strip(line) IN
    IF text = <<>> THEN Ret(<<>>)
    ELSE LET record == JsonLoads(text) IN
         IF ~record.ok THEN Raise("JSONDecodeError")
         ELSE Appended(convert_record(record.v, lineno))

\* load_entries' loop body with enumerate(handle) counting from 0.
LoadLineFromZero(line, lineno) ==
    LET text == Strip(line) IN
    IF text = <<>> THEN Ret(<<>>)
    ELSE LoadRecord(JsonLoads(text), lineno - 1)

\* One iteration of load_entries' loop, on line number lineno: what it appends
\* (<<>> or one Entry), or the exception that leaves the loop.
LoadLine(line, lineno) ==
    LET text == Strip(line) IN
    IF text = <<>> THEN Ret(<<>>)
    ELSE LoadRecord(JsonLoads(text), lineno)

\* load_entries on the first n lines: Ret(entries), or the exception of the first
\* line that raises
RECURSIVE load_entries(_, _)
load_entries(lines, n) ==
    IF n = 0 THEN Ret(<<>>)
    ELSE LET before == load_entries(lines, n - 1) IN
         IF ~before.ok THEN before
         ELSE LET r == LoadLine(lines[n], n) IN
              IF ~r.ok THEN r ELSE Ret(before.v \o r.v)

Init ==
    /\ \E n \in 0..MaxLines : file \in [1..n -> LogLines]
    /\ pc = "load_entries"
    /\ pos = 0
    /\ entries = <<>>
    /\ outcome = NoOutcome
    /\ uploads = <<>>
    /\ summary_section = <<>>
    /\ response = NoResponse
    /\ gitInstalled = TRUE
    /\ HistoryIdle
    /\ NoServer
    /\ self_path = <<>>

LoadStep ==
    /\ pc = "load_entries"
    /\ pos < Len(file)
    /\ \E r \in {LoadLine(file[pos + 1], pos + 1)} :
       IF r.ok
       THEN /\ entries' = entries \o r.v
            /\ pos' = pos + 1
            /\ UNCHANGED <<pc, outcome>>
       ELSE /\ pc' = "failed"
            /\ outcome' = Raised("load_entries", r.exc)
            /\ UNCHANGED <<pos, entries>>
    /\ UNCHANGED srvvars
    /\ UNCHANGED <<file, uploads, summary_section, response>>
    /\ UNCHANGED histvars

LoadReturn ==
    /\ pc = "load_entries"
    /\ pos = Len(file)
    /\ pc' = "loaded"
    /\ outcome' = Returned("load_entries", entries)
    /\ UNCHANGED srvvars
    /\ UNCHANGED <<file, pos, entries, uploads, summary_section, response>>
    /\ UNCHANGED histvars

BuildPage ==
    /\ pc = "loaded"
    /\ \E page \in {build_page(entries, source_path)} :
       IF page.ok
       THEN pc' = "served" /\ outcome' = Returned("build_page", page.v)
       ELSE pc' = "failed" /\ outcome' = Raised("build_page", page.exc)
    /\ UNCHANGED srvvars
    /\ UNCHANGED <<file, pos, entries, uploads, summary_section, response>>
    /\ UNCHANGED histvars

Next == LoadStep \/ LoadReturn \/ BuildPage

Spec == Init /\ [][Next]_vars

----------------------------------------------------------------------------
(* The upload view: extract_run_code_uploads one loop iteration a step,    *)
(* build_upload_git_history one git invocation or file write a step, and   *)
(* build_run_code_page around them, as run_code_builder calls it for a     *)
(* GET of /run_code_log.html.                                              *)

Min(a, b) == IF a <= b THEN a ELSE b

ExtractStep ==
    /\ pc = "extract"
    /\ pos < Len(file)
    /\ \E r \in {ExtractLine(file[pos + 1], pos + 1, Len(uploads))} :
         IF r.ok
         THEN /\ uploads' = uploads \o r.v
              /\ pos' = pos + 1
              /\ UNCHANGED <<pc, outcome>>
         ELSE /\ pc' = "raised"
              /\ outcome' = Raised("extract_run_code_uploads", r.exc)
              /\ UNCHANGED <<pos, uploads>>
    /\ UNCHANGED srvvars
    /\ UNCHANGED <<file, entries, summary_section, response>>
    /\ UNCHANGED histvars

ExtractReturn ==
    /\ pc = "extract"
    /\ pos = Len(file)
    /\ pc' = "extracted"
    /\ outcome' = Returned("extract_run_code_uploads", uploads)
    /\ UNCHANGED srvvars
    /\ UNCHANGED <<file, pos, entries, uploads, summary_section, response>>
    /\ UNCHANGED histvars

\* summary_section = render_upload_summary(uploads), then `if uploads:`
RenderSummary ==
    /\ pc = "extracted"
    /\ \E s \in {render_upload_summary(uploads)} :
         IF s.ok
         THEN /\ summary_section' = s.v
              /\ pc' = IF uploads # <<>> THEN "build_history" ELSE "no_uploads"
              /\ UNCHANGED outcome
         ELSE /\ pc' = "raised"
              /\ outcome' = Raised("render_upload_summary", s.exc)
              /\ UNCHANGED summary_section
    /\ UNCHANGED srvvars
    /\ UNCHANGED <<file, pos, entries, uploads, response>>
    /\ UNCHANGED histvars

\* subprocess.run(["git", *args], ...): what one invocation can come to, stdout
\* being what the command prints when it succeeds
SubprocessRun(stdout) ==
    IF gitInstalled
    THEN {[found |-> TRUE, returncode |-> 0, stdout |-> stdout, stderr |-> <<>>]}
         \cup {[found |-> TRUE, returncode |-> 128, stdout |-> <<>>, stderr |-> e] : e \in GitStderr}
    ELSE {[found |-> FALSE, returncode |-> 0, stdout |-> <<>>, stderr |-> <<>>]}

Invoked(log, args, proc) ==
    Append(log, [args |-> args, found |-> proc.found, returncode |-> proc.returncode,
                 stderr |-> proc.stderr])

\* An exception leaves the with block: the TemporaryDirectory is exited and
\* build_upload_git_history raises.
HistoryRaises(r) ==
    /\ areas' = TempDirExit(areas, tmpdir, TRUE)
    /\ pc' = "history_raised"
    /\ outcome' = [kind |-> "raise", fn |-> "build_upload_git_history",
                   exc |-> r.exc, msg |-> r.msg]
    /\ UNCHANGED <<repo, idx, revs, diffs, short>>

\* `if not uploads: return []`, else the with statement creates the directory
BeginHistory ==
    /\ pc = "build_history"
    /\ IF uploads = <<>>
       THEN /\ pc' = "history_returned"
            /\ outcome' = Returned("build_upload_git_history", <<>>)
            /\ UNCHANGED <<areas, tmpdir, repo>>
       ELSE /\ tmpdir' = NewArea(areas)
            /\ areas' = areas \cup {NewArea(areas)}
            /\ repo' = EmptyRepo
            /\ pc' = "git_init"
            /\ UNCHANGED outcome
    /\ UNCHANGED srvvars
    /\ UNCHANGED <<file, pos, entries, uploads, summary_section, response>>
    /\ UNCHANGED <<gitInstalled, gitlog, idx, revs, diffs, short>>

GitInitStep ==
    /\ pc = "git_init"
    /\ \E proc \in SubprocessRun(<<>>) :
         /\ gitlog' = Invoked(gitlog, GIT_INIT, proc)
         /\ \E r \in {run_git_command(GIT_INIT, proc)} :
              IF r.ok
              THEN /\ repo' = GitInit(repo)
                   /\ idx' = 1
                   /\ pc' = "commit_loop"
                   /\ UNCHANGED <<areas, outcome, revs, diffs, short>>
              ELSE HistoryRaises(r)
    /\ UNCHANGED srvvars
    /\ UNCHANGED <<file, pos, entries, uploads, summary_section, response>>
    /\ UNCHANGED <<gitInstalled, tmpdir>>

\* code_path.write_text(upload.code): the write succeeds or raises OSError
WriteCode ==
    /\ pc = "commit_loop"
    /\ idx <= Len(uploads)
    /\ \E written \in BOOLEAN :
         IF written
         THEN /\ repo' = WriteCodeFile(repo, uploads[idx].code)
              /\ pc' = "write_flags"
              /\ UNCHANGED <<areas, outcome, idx, revs, diffs, short>>
         ELSE HistoryRaises(Exc("OSError", <<"No space left on device">>))
    /\ UNCHANGED srvvars
    /\ UNCHANGED <<file, pos, entries, uploads, summary_section, response>>
    /\ UNCHANGED <<gitInstalled, tmpdir, gitlog>>

\* flags_path.write_text(upload.flags)
WriteFlags ==
    /\ pc = "write_flags"
    /\ \E written \in BOOLEAN :
         IF written
         THEN /\ repo' = WriteFlagsFile(repo, uploads[idx].flags)
              /\ pc' = "git_add"
              /\ UNCHANGED <<areas, outcome, idx, revs, diffs, short>>
         ELSE HistoryRaises(Exc("OSError", <<"No space left on device">>))
    /\ UNCHANGED srvvars
    /\ UNCHANGED <<file, pos, entries, uploads, summary_section, response>>
    /\ UNCHANGED <<gitInstalled, tmpdir, gitlog>>

GitAddStep ==
    /\ pc = "git_add"
    /\ \E proc \in SubprocessRun(<<>>) :
         /\ gitlog' = Invoked(gitlog, GIT_ADD, proc)
         /\ \E r \in {run_git_command(GIT_ADD, proc)} :
              IF r.ok
              THEN /\ repo' = GitAdd(repo)
                   /\ pc' = "git_commit"
                   /\ UNCHANGED <<areas, outcome, idx, revs, diffs, short>>
              ELSE HistoryRaises(r)
    /\ UNCHANGED srvvars
    /\ UNCHANGED <<file, pos, entries, uploads, summary_section, response>>
    /\ UNCHANGED <<gitInstalled, tmpdir>>

GitCommitStep ==
    /\ pc = "git_commit"
    /\ \E proc \in SubprocessRun(<<>>) :
         /\ gitlog' = Invoked(gitlog, GIT_COMMIT(CommitMessage(uploads[idx])), proc)
         /\ \E r \in {run_git_command(GIT_COMMIT(CommitMessage(uploads[idx])), proc)} :
              IF r.ok
              THEN /\ repo' = GitCommit(repo, CommitMessage(uploads[idx]))
                   /\ idx' = idx + 1
                   /\ pc' = "commit_loop"
                   /\ UNCHANGED <<areas, outcome, revs, diffs, short>>
              ELSE HistoryRaises(r)
    /\ UNCHANGED srvvars
    /\ UNCHANGED <<file, pos, entries, uploads, summary_section, response>>
    /\ UNCHANGED <<gitInstalled, tmpdir>>

\* After the last upload: revs_output, revs, and diffs = []
GitRevListStep ==
    /\ pc = "commit_loop"
    /\ idx > Len(uploads)
    /\ \E proc \in SubprocessRun(GitRevList(repo)) :
         /\ gitlog' = Invoked(gitlog, GIT_REV_LIST, proc)
         /\ \E r \in {run_git_command(GIT_REV_LIST, proc)} :
              IF r.ok
              THEN /\ revs' = RevsOf(r.v)
                   /\ diffs' = <<>>
                   /\ idx' = 1
                   /\ pc' = "diff_loop"
                   /\ UNCHANGED <<areas, outcome, repo, short>>
              ELSE HistoryRaises(r)
    /\ UNCHANGED srvvars
    /\ UNCHANGED <<file, pos, entries, uploads, summary_section, response>>
    /\ UNCHANGED <<gitInstalled, tmpdir>>

\* for rev, upload in zip(revs, uploads): short
GitRevParseStep ==
    /\ pc = "diff_loop"
    /\ idx <= Min(Len(revs), Len(uploads))
    /\ \E proc \in SubprocessRun(GitRevParseShort(repo, revs[idx])) :
         /\ gitlog' = Invoked(gitlog, GIT_REV_PARSE(revs[idx]), proc)
         /\ \E r \in {run_git_command(GIT_REV_PARSE(revs[idx]), proc)} :
              IF r.ok
              THEN /\ short' = Strip(r.v)
                   /\ pc' = "git_show"
                   /\ UNCHANGED <<areas, outcome, repo, idx, revs, diffs>>
              ELSE HistoryRaises(r)
    /\ UNCHANGED srvvars
    /\ UNCHANGED <<file, pos, entries, uploads, summary_section, response>>
    /\ UNCHANGED <<gitInstalled, tmpdir>>

\* diff, label and diffs.append((label, diff))
GitShowStep ==
    /\ pc = "git_show"
    /\ \E proc \in SubprocessRun(GitShow(repo, revs[idx])) :
         /\ gitlog' = Invoked(gitlog, GIT_SHOW(revs[idx]), proc)
         /\ \E r \in {run_git_command(GIT_SHOW(revs[idx]), proc)} :
              IF r.ok
              THEN /\ diffs' = Append(diffs, [label |-> DiffLabel(short, uploads[idx]),
                                              diff |-> r.v])
                   /\ idx' = idx + 1
                   /\ pc' = "diff_loop"
                   /\ UNCHANGED <<areas, outcome, repo, revs, short>>
              ELSE HistoryRaises(r)
    /\ UNCHANGED srvvars
    /\ UNCHANGED <<file, pos, entries, uploads, summary_section, response>>
    /\ UNCHANGED <<gitInstalled, tmpdir>>

\* `return diffs` leaves the with block
HistoryReturn ==
    /\ pc = "diff_loop"
    /\ idx > Min(Len(revs), Len(uploads))
    /\ areas' = TempDirExit(areas, tmpdir, FALSE)
    /\ pc' = "history_returned"
    /\ outcome' = Returned("build_upload_git_history", diffs)
    /\ UNCHANGED srvvars
    /\ UNCHANGED <<file, pos, entries, uploads, summary_section, response>>
    /\ UNCHANGED <<gitInstalled, tmpdir, repo, gitlog, idx, revs, diffs, short>>

\* do_GET sends what build_run_code_page returned
Respond(page) ==
    /\ pc' = "done"
    /\ outcome' = Returned("build_run_code_page", page)
    /\ response' = Response200(page)
    /\ stderr' = Append(stderr, LogLine(self_path, "200"))
    /\ UNCHANGED <<exists, sys_stdout, exit_status, bound, self_path, served, cur, ctx, disk>>
    /\ UNCHANGED <<file, pos, entries, uploads, summary_section>>
    /\ UNCHANGED histvars

\* The else branch of the try: the diff cards
RenderDiffs ==
    /\ pc = "history_returned"
    /\ Respond(RunCodeDocument(source_path, Len(uploads), summary_section,
                               DiffsSection(outcome.v)))

\* The except RuntimeError branch: the banner
RenderBanner ==
    /\ pc = "history_raised"
    /\ outcome.exc = "RuntimeError"
    /\ Respond(RunCodeDocument(source_path, Len(uploads), summary_section,
                               ErrorBanner(outcome.msg)))

\* No upload: the diffs section stays empty
RenderNoUploads ==
    /\ pc = "no_uploads"
    /\ Respond(RunCodeDocument(source_path, Len(uploads), summary_section, <<>>))

\* An exception that is no RuntimeError leaves build_run_code_page and do_GET:
\* the request gets no response
HistoryErrorPropagates ==
    /\ pc = "history_raised"
    /\ outcome.exc # "RuntimeError"
    /\ pc' = "raised"
    /\ UNCHANGED srvvars
    /\ UNCHANGED <<file, pos, entries, outcome, uploads, summary_section, response>>
    /\ UNCHANGED histvars

----------------------------------------------------------------------------
(* The lines a log may hold for the upload extractor *)

UploadCall(timestamp, arguments) ==
    JMap(<<KV(T_type, JStr(T_response_item)), KV(T_timestamp, timestamp),
           KV(T_payload, FunctionCall(JStr(TARGET_RUN_CODE_FN), arguments))>>)

\* The arguments of the calls that upload
ArgsTwoFlags ==
    JMap(<<KV(T_code, JStr(<<"int", " ", "x;">>)),
           KV(T_flags, JList(<<JStr(<<"-", "O2">>), JStr(<<"-", "Wall">>)>>))>>)
ArgsNulls == JMap(<<KV(T_code, JNull), KV(T_flags, JNull)>>)
ArgsEmpty == JMap(<<>>)
ArgsNumberCode == JMap(<<KV(T_code, JNum("5")), KV(T_flags, JStr(<<"-", "g">>))>>)
ArgsMixedFlags ==
    JMap(<<KV(T_code, JStr(<<"a", "<", "b", "\n", "c">>)),
           KV(T_flags, JList(<<JNum("5"), JNull>>))>>)

\* Calls of the target function that upload: the arguments as JSON text, or as
\* an object
UploadRecords ==
    { UploadCall(W("u1"), JStr(JsonLine(ArgsTwoFlags))),
      UploadCall(W("u2"), ArgsNulls),
      UploadCall(W("u3"), JStr(JsonLine(ArgsEmpty))),
      UploadCall(W("u4"), JStr(JsonLine(ArgsNumberCode))),
      UploadCall(W("u5"), JStr(JsonLine(ArgsMixedFlags))) }

\* Calls of the target function whose arguments do not parse to a map
SkippedCallRecords ==
    { UploadCall(W("s1"), JStr(<<"[", "5", "]">>)),
      UploadCall(W("s2"), JStr(<<"{", "oops">>)),
      Rec(T_response_item, "s3",
          JMap(<<KV(T_type, JStr(T_function_call)), KV(T_name, JStr(TARGET_RUN_CODE_FN))>>)) }

\* Records that are no call of the target function
OtherRecords ==
    { Rec(T_session_meta, "n1", JMap(<<>>)),
      Rec(T_response_item, "n2", FunctionCall(W("shell"), JStr(JsonLine(ArgsTwoFlags)))) }

\* A line that is valid JSON and no object
NonObjectLine == JsonLine(JList(<<JNum("5")>>))

UploadLines ==
    {JsonLine(v) : v \in UploadRecords \cup SkippedCallRecords \cup OtherRecords}
    \cup {<<"not", " ", "json">>, <<" ">>, NonObjectLine}

\* The most lines of a log given to the extractor alone.
MaxUploadLines == 3

\* The lines of a log the upload view is asked for: two uploads, a skipped
\* call, an upload whose timestamp is a number, and a line that is no object
RequestLines ==
    { JsonLine(UploadCall(W("u1"), JStr(JsonLine(ArgsTwoFlags)))),
      JsonLine(UploadCall(W("u5"), JStr(JsonLine(ArgsMixedFlags)))),
      JsonLine(UploadCall(W("s1"), JStr(<<"[", "5", "]">>))),
      JsonLine(UploadCall(JNum("7"), ArgsNulls)),
      NonObjectLine }

\* The most lines of a log the upload view is asked for.
MaxRequestLines == 2

\* The code and flags of the snapshots build_upload_git_history is called with
SnapshotContents ==
    { [code |-> <<"int", " ", "x;">>, flags |-> <<"-", "O2", "\n", "-", "Wall">>],
      [code |-> <<"a", "<", "b", "\n", "c">>, flags |-> <<"5", "\n", "None">>],
      [code |-> <<>>, flags |-> <<>>] }

\* The most snapshots of a list.
MaxUploads == 3

\* An uploads list as extract_run_code_uploads returns it
UploadsOf(contents) ==
    [i \in 1..Len(contents) |->
        RunCodeUpload(i, W("t"), 2 * i, contents[i].code, contents[i].flags)]

\* The entries main loaded before it started the server
StartupEntries == load_entries(<<JsonLine(Rec(T_session_meta, "t0", JMap(<<>>)))>>, 1).v

----------------------------------------------------------------------------
(* The specifications of the upload view *)

\* extract_run_code_uploads alone, on a log
InitExtract ==
    /\ \E n \in 0..MaxUploadLines : file \in [1..n -> UploadLines]
    /\ pc = "extract"
    /\ pos = 0
    /\ entries = <<>>
    /\ outcome = NoOutcome
    /\ uploads = <<>>
    /\ summary_section = <<>>
    /\ response = NoResponse
    /\ gitInstalled = TRUE
    /\ HistoryIdle
    /\ NoServer
    /\ self_path = <<>>

NextExtract == ExtractStep \/ ExtractReturn

SpecExtract == InitExtract /\ [][NextExtract]_vars

\* build_upload_git_history alone, on an uploads list
InitHistory ==
    /\ \E n \in 0..MaxUploads : \E contents \in [1..n -> SnapshotContents] :
           uploads = UploadsOf(contents)
    /\ gitInstalled \in BOOLEAN
    /\ pc = "build_history"
    /\ file = <<>>
    /\ pos = 0
    /\ entries = <<>>
    /\ outcome = NoOutcome
    /\ summary_section = <<>>
    /\ response = NoResponse
    /\ HistoryIdle
    /\ NoServer
    /\ self_path = <<>>

NextHistory ==
    \/ BeginHistory \/ GitInitStep \/ WriteCode \/ WriteFlags \/ GitAddStep \/ GitCommitStep
    \/ GitRevListStep \/ GitRevParseStep \/ GitShowStep \/ HistoryReturn

SpecHistory == InitHistory /\ [][NextHistory]_vars

\* A GET of /run_code_log.html: run_code_builder calls build_run_code_page on
\* the log as it is at that time
InitRunCode ==
    /\ \E n \in 0..MaxRequestLines : file \in [1..n -> RequestLines]
    /\ gitInstalled \in BOOLEAN
    /\ pc = "extract"
    /\ pos = 0
    /\ entries = StartupEntries
    /\ outcome = NoOutcome
    /\ uploads = <<>>
    /\ summary_section = <<>>
    /\ response = NoResponse
    /\ HistoryIdle
    /\ NoServer
    /\ self_path = RunCodePath

NextRunCode ==
    \/ ExtractStep \/ ExtractReturn \/ RenderSummary
    \/ BeginHistory \/ GitInitStep \/ WriteCode \/ WriteFlags \/ GitAddStep \/ GitCommitStep
    \/ GitRevListStep \/ GitRevParseStep \/ GitShowStep \/ HistoryReturn
    \/ RenderDiffs \/ RenderBanner \/ RenderNoUploads \/ HistoryErrorPropagates

SpecRunCode == InitRunCode /\ [][NextRunCode]_vars

----------------------------------------------------------------------------
(* main and the server: main checks the log, loads it and starts the       *)
(* server; the server accepts a request, do_GET dispatches on self.path,   *)
(* and the request ends when do_GET returns or raises.                     *)

\* A new request thread's locals
FreshLocals ==
    /\ pos' = 0
    /\ uploads' = <<>>
    /\ summary_section' = <<>>
    /\ response' = NoResponse
    /\ outcome' = NoOutcome
    /\ tmpdir' = 0
    /\ repo' = EmptyRepo
    /\ gitlog' = <<>>
    /\ idx' = 0
    /\ revs' = <<>>
    /\ diffs' = <<>>
    /\ short' = <<>>

\* What the interpreter prints when an exception leaves main
Traceback(exc) == <<"Traceback (most recent call last): ", exc, "\n">>

\* `if not source_path.exists()`: the diagnostic and sys.exit(1), or on to
\* load_entries
MainCheckExists ==
    /\ pc = "main"
    /\ IF ~exists
       THEN /\ stderr' = Append(stderr, <<"Log file not found: ">> \o source_path \o <<"\n">>)
            /\ exit_status' = <<1>>
            /\ pc' = "exited"
       ELSE /\ pc' = "load_entries"
            /\ UNCHANGED <<stderr, exit_status>>
    /\ UNCHANGED <<file, pos, entries, outcome, uploads, summary_section, response>>
    /\ UNCHANGED histvars
    /\ UNCHANGED <<exists, sys_stdout, bound, self_path, served, cur, ctx, disk>>

\* `if not entries`: the diagnostic and sys.exit(1)
MainNoEntries ==
    /\ pc = "loaded"
    /\ entries = <<>>
    /\ stderr' = Append(stderr, <<"No entries were parsed from the log.", "\n">>)
    /\ exit_status' = <<1>>
    /\ pc' = "exited"
    /\ UNCHANGED <<file, pos, entries, outcome, uploads, summary_section, response>>
    /\ UNCHANGED histvars
    /\ UNCHANGED <<exists, sys_stdout, bound, self_path, served, cur, ctx, disk>>

\* main going on to start_server whatever load_entries returned
StartServerUnguarded ==
    /\ pc = "loaded"
    /\ \E free \in BOOLEAN :
         IF free
         THEN /\ bound' = TRUE
              /\ sys_stdout' = Append(sys_stdout, <<"Serving log on http://127.0.0.1:8000", "\n">>)
              /\ pc' = "serve_forever"
              /\ UNCHANGED outcome
         ELSE /\ pc' = "failed"
              /\ outcome' = Raised("start_server", "OSError")
              /\ UNCHANGED <<bound, sys_stdout>>
    /\ UNCHANGED <<file, pos, entries, uploads, summary_section, response>>
    /\ UNCHANGED histvars
    /\ UNCHANGED <<exists, stderr, exit_status, self_path, served, cur, ctx, disk>>

\* start_server up to serve_forever, reached when entries is not empty:
\* ThreadingHTTPServer binds the port, or raises OSError when the port is taken
StartServer ==
    /\ pc = "loaded"
    /\ entries # <<>>
    /\ \E free \in BOOLEAN :
         IF free
         THEN /\ bound' = TRUE
              /\ sys_stdout' = Append(sys_stdout, <<"Serving log on http://127.0.0.1:8000", "\n">>)
              /\ pc' = "serve_forever"
              /\ UNCHANGED outcome
         ELSE /\ pc' = "failed"
              /\ outcome' = Raised("start_server", "OSError")
              /\ UNCHANGED <<bound, sys_stdout>>
    /\ UNCHANGED <<file, pos, entries, uploads, summary_section, response>>
    /\ UNCHANGED histvars
    /\ UNCHANGED <<exists, stderr, exit_status, self_path, served, cur, ctx, disk>>

\* An exception leaves main: the traceback, and the process exits with status 1
MainRaises ==
    /\ pc = "failed"
    /\ stderr' = Append(stderr, Traceback(outcome.exc))
    /\ exit_status' = <<1>>
    /\ pc' = "exited"
    /\ UNCHANGED <<file, pos, entries, outcome, uploads, summary_section, response>>
    /\ UNCHANGED histvars
    /\ UNCHANGED <<exists, sys_stdout, bound, self_path, served, cur, ctx, disk>>

\* self.path of the requests a client sends
RequestPaths ==
    IndexPaths \cup {RunCodePath, <<"/", "favicon.ico">>, <<"/", "index.html", "?", "q">>}

\* The most requests the server is sent.
MaxRequests == 2

\* The requests taken so far that are not at their end
Waiting == DOMAIN ctx

\* serve_forever takes a request: a thread is started for it and calls do_GET.
\* The thread is numbered by the requests taken before it.
AcceptOf(paths) ==
    /\ pc = "serve_forever"
    /\ cur = 0
    /\ bound
    /\ Len(served) + Cardinality(Waiting) < MaxRequests
    /\ \E p \in paths : self_path' = p
    /\ cur' = Len(served) + Cardinality(Waiting) + 1
    /\ pc' = "do_GET"
    /\ FreshLocals
    /\ UNCHANGED <<file, entries, gitInstalled, areas>>
    /\ UNCHANGED <<exists, stderr, sys_stdout, exit_status, bound, served, ctx, disk>>

Accept == AcceptOf(RequestPaths)

\* The locals of the thread that runs; repo is the repository it last saw in
\* its directory
Locals ==
    [pc |-> pc, self_path |-> self_path, pos |-> pos, outcome |-> outcome,
     uploads |-> uploads, summary_section |-> summary_section, response |-> response,
     tmpdir |-> tmpdir, repo |-> repo, gitlog |-> gitlog, idx |-> idx, revs |-> revs,
     diffs |-> diffs, short |-> short]

\* The scheduler takes the processor from the running thread: its locals wait,
\* and what it wrote in its directory is on the disk, if the directory exists
Yield ==
    /\ cur # 0
    /\ ctx' = [t \in Waiting \cup {cur} |-> IF t = cur THEN Locals ELSE ctx[t]]
    /\ disk' = [d \in (DOMAIN disk \cup {tmpdir}) \cap areas |->
                   IF d = tmpdir THEN repo ELSE disk[d]]
    /\ cur' = 0
    /\ pc' = "serve_forever"
    /\ self_path' = <<>>
    /\ FreshLocals
    /\ UNCHANGED <<file, entries, gitInstalled, areas>>
    /\ UNCHANGED <<exists, stderr, sys_stdout, exit_status, bound, served>>

\* The scheduler gives the processor to a waiting thread: it goes on with its
\* locals and with the repository that is in its directory now
Resume(t) ==
    /\ cur = 0
    /\ pc = "serve_forever"
    /\ t \in Waiting
    /\ cur' = t
    /\ ctx' = [u \in Waiting \ {t} |-> ctx[u]]
    /\ pc' = ctx[t].pc
    /\ self_path' = ctx[t].self_path
    /\ pos' = ctx[t].pos
    /\ outcome' = ctx[t].outcome
    /\ uploads' = ctx[t].uploads
    /\ summary_section' = ctx[t].summary_section
    /\ response' = ctx[t].response
    /\ tmpdir' = ctx[t].tmpdir
    /\ repo' = IF ctx[t].tmpdir \in DOMAIN disk THEN disk[ctx[t].tmpdir] ELSE ctx[t].repo
    /\ gitlog' = ctx[t].gitlog
    /\ idx' = ctx[t].idx
    /\ revs' = ctx[t].revs
    /\ diffs' = ctx[t].diffs
    /\ short' = ctx[t].short
    /\ UNCHANGED <<file, entries, gitInstalled, areas>>
    /\ UNCHANGED <<exists, stderr, sys_stdout, exit_status, bound, served, disk>>

\* do_GET for the index with an index_builder that loads the log again on
\* every request
DoGetIndexReloading ==
    /\ pc = "do_GET"
    /\ self_path \in IndexPaths
    /\ \E loaded \in {load_entries(file, Len(file))} :
       \E page \in {IF loaded.ok THEN build_page(loaded.v, source_path) ELSE loaded} :
         IF page.ok
         THEN /\ pc' = "done"
              /\ outcome' = Returned("build_page", page.v)
              /\ response' = Response200(page.v)
              /\ stderr' = Append(stderr, LogLine(self_path, "200"))
         ELSE /\ pc' = "raised"
              /\ outcome' = Raised("build_page", page.exc)
              /\ UNCHANGED <<response, stderr>>
    /\ UNCHANGED <<file, pos, entries, uploads, summary_section>>
    /\ UNCHANGED histvars
    /\ UNCHANGED <<exists, sys_stdout, exit_status, bound, self_path, served, cur, ctx, disk>>

\* do_GET when self.path in {"/", "/index.html"}: index_builder is page_builder,
\* build_page on main's entries; what it returns is encoded and sent
DoGetIndex ==
    /\ pc = "do_GET"
    /\ self_path \in IndexPaths
    /\ \E page \in {build_page(entries, source_path)} :
         IF page.ok
         THEN /\ pc' = "done"
              /\ outcome' = Returned("build_page", page.v)
              /\ response' = Response200(page.v)
              /\ stderr' = Append(stderr, LogLine(self_path, "200"))
         ELSE /\ pc' = "raised"
              /\ outcome' = Raised("build_page", page.exc)
              /\ UNCHANGED <<response, stderr>>
    /\ UNCHANGED <<file, pos, entries, uploads, summary_section>>
    /\ UNCHANGED histvars
    /\ UNCHANGED <<exists, sys_stdout, exit_status, bound, self_path, served, cur, ctx, disk>>

\* do_GET when self.path == "/run_code_log.html": run_code_builder calls
\* build_page_run_code, which starts with extract_run_code_uploads
DoGetRunCode ==
    /\ pc = "do_GET"
    /\ self_path = RunCodePath
    /\ pc' = "extract"
    /\ UNCHANGED <<file, pos, entries, outcome, uploads, summary_section, response>>
    /\ UNCHANGED histvars
    /\ UNCHANGED srvvars

\* do_GET's else branch: send_error(404, "Not Found") and return
DoGetNotFound ==
    /\ pc = "do_GET"
    /\ self_path \notin IndexPaths
    /\ self_path # RunCodePath
    /\ response' = Response404
    /\ stderr' = stderr \o <<<<"Server: code 404, message Not Found", "\n">>,
                              LogLine(self_path, "404")>>
    /\ pc' = "done"
    /\ UNCHANGED <<file, pos, entries, outcome, uploads, summary_section>>
    /\ UNCHANGED histvars
    /\ UNCHANGED <<exists, sys_stdout, exit_status, bound, self_path, served, cur, ctx, disk>>

\* What the request got: the path asked for, the response sent, and the page
\* builder's outcome
Handled ==
    [path |-> self_path, response |-> response, outcome |-> outcome]

\* do_GET returned or raised: the thread ends; an exception is reported by
\* socketserver's handle_error and the connection closes with nothing sent
Finish ==
    /\ pc \in {"done", "raised"}
    /\ bound
    /\ served' = Append(served, Handled)
    /\ stderr' = IF pc = "raised"
                 THEN Append(stderr, <<"Exception occurred during processing of request", "\n">>)
                 ELSE stderr
    /\ pc' = "serve_forever"
    /\ cur' = 0
    /\ UNCHANGED <<file, pos, entries, outcome, uploads, summary_section, response>>
    /\ UNCHANGED histvars
    /\ UNCHANGED <<exists, sys_stdout, exit_status, bound, self_path, ctx, disk>>

\* The lines of the log main is started on: an upload, an upload whose
\* timestamp is a number, a record that is no call, a blank line, a message
\* without text, and a line that is no object
ServerLines ==
    { JsonLine(UploadCall(W("u1"), JStr(JsonLine(ArgsTwoFlags)))),
      JsonLine(UploadCall(JNum("7"), ArgsNulls)),
      JsonLine(Rec(T_session_meta, "n1", JMap(<<>>))),
      <<" ">>,
      JsonLine(Rec(T_response_item, "t4", Message(W("assistant"), JList(<<>>)))),
      NonObjectLine }

\* The most lines of the log main is started on.
MaxServerLines == 2

\* The process from main on: the log exists or not, git is installed or not
InitServer ==
    /\ exists \in BOOLEAN
    /\ IF exists
       THEN \E n \in 0..MaxServerLines : file \in [1..n -> ServerLines]
       ELSE file = <<>>
    /\ gitInstalled \in BOOLEAN
    /\ pc = "main"
    /\ pos = 0
    /\ entries = <<>>
    /\ outcome = NoOutcome
    /\ uploads = <<>>
    /\ summary_section = <<>>
    /\ response = NoResponse
    /\ HistoryIdle
    /\ stderr = <<>>
    /\ sys_stdout = <<>>
    /\ exit_status = <<>>
    /\ bound = FALSE
    /\ self_path = <<>>
    /\ served = <<>>
    /\ cur = 0
    /\ ctx = <<>>
    /\ disk = <<>>

\* The steps of a request for the upload view
RunCodeSteps ==
    \/ ExtractStep \/ ExtractReturn \/ RenderSummary
    \/ BeginHistory \/ GitInitStep \/ WriteCode \/ WriteFlags \/ GitAddStep \/ GitCommitStep
    \/ GitRevListStep \/ GitRevParseStep \/ GitShowStep \/ HistoryReturn
    \/ RenderDiffs \/ RenderBanner \/ RenderNoUploads \/ HistoryErrorPropagates

NextServer ==
    \/ MainCheckExists \/ LoadStep \/ LoadReturn \/ MainNoEntries \/ StartServer \/ MainRaises
    \/ Accept \/ DoGetIndex \/ DoGetRunCode \/ DoGetNotFound \/ RunCodeSteps \/ Finish

SpecServer == InitServer /\ [][NextServer]_vars

\* The logs the server runs on while its requests overlap: an upload, an upload
\* whose timestamp is a number, and a record that is no call
ThreadLogs ==
    { <<JsonLine(UploadCall(W("u1"), JStr(JsonLine(ArgsTwoFlags))))>>,
      <<JsonLine(UploadCall(JNum("7"), ArgsNulls))>>,
      <<JsonLine(Rec(T_session_meta, "n1", JMap(<<>>)))>> }

\* self.path of the requests that overlap
ThreadPaths == {<<"/">>, RunCodePath, <<"/", "favicon.ico">>}

AcceptThread == AcceptOf(ThreadPaths)

\* The server in serve_forever: main loaded the log and bound the port
InitThreads ==
    /\ file \in ThreadLogs
    /\ entries = load_entries(file, Len(file)).v
    /\ gitInstalled \in BOOLEAN
    /\ pc = "serve_forever"
    /\ pos = 0
    /\ outcome = NoOutcome
    /\ uploads = <<>>
    /\ summary_section = <<>>
    /\ response = NoResponse
    /\ HistoryIdle
    /\ exists = TRUE
    /\ stderr = <<>>
    /\ sys_stdout = <<<<"Serving log on http://127.0.0.1:8000", "\n">>>>
    /\ exit_status = <<>>
    /\ bound = TRUE
    /\ self_path = <<>>
    /\ served = <<>>
    /\ cur = 0
    /\ ctx = <<>>
    /\ disk = <<>>

\* ThreadingHTTPServer: one thread per request, run in any interleaving
NextThreads ==
    \/ AcceptThread \/ Yield \/ (\E t \in Waiting : Resume(t))
    \/ DoGetIndex \/ DoGetRunCode \/ DoGetNotFound \/ RunCodeSteps \/ Finish

SpecThreads == InitThreads /\ [][NextThreads]_vars

\* The steps of load_entries' loop, told by what they change: LoadStep can be
\* taken whenever a line is left, and either consumes it or fails
LoadProgress ==
    /\ pc = "load_entries"
    /\ pos < Len(file)
    /\ \/ pos' = pos + 1 /\ pc' = pc
       \/ pos' = pos /\ pc' = "failed"

\* main is sequential code: each of its steps is taken once it can be
FairSpecServer ==
    /\ SpecServer
    /\ WF_vars(MainCheckExists)
    /\ WF_<<pc, pos>>(LoadProgress)
    /\ WF_vars(LoadReturn)
    /\ WF_vars(MainNoEntries)
    /\ WF_vars(StartServer)
    /\ WF_vars(MainRaises)

----------------------------------------------------------------------------
(* A log written to attack the page: every text of a record holds the       *)
(* characters html.escape rewrites.                                        *)

Hostile == <<"<", "script", ">", "&", "\"", "x", "'">>

HostileRec(type, payload) ==
    JMap(<<KV(T_type, type), KV(T_timestamp, JStr(Hostile)), KV(T_payload, payload)>>)

HostileCall(name, arguments) ==
    JMap(<<KV(T_type, JStr(T_function_call)), KV(T_name, name),
           KV(T_arguments, arguments), KV(T_call_id, JStr(Hostile))>>)

\* Arguments of update_plan: the step, the explanation and the status
HostilePlan(status) ==
    JMap(<<KV(T_explanation, JStr(Hostile)),
           KV(T_plan, JList(<<JMap(<<KV(T_step, JStr(Hostile)), KV(T_status, status)>>)>>))>>)

\* Records with the hostile text in every place but a plan's status
HostileRecords ==
    { HostileRec(JStr(Hostile), JMap(<<KV(Hostile, JStr(Hostile))>>)),
      HostileRec(JStr(T_session_meta), JMap(<<KV(Hostile, JStr(Hostile))>>)),
      HostileRec(JStr(T_response_item),
                 Message(JStr(Hostile), JList(<<Chunk(T_output_text, JStr(Hostile))>>))),
      HostileRec(JStr(T_response_item),
                 HostileCall(JStr(Hostile),
                             JMap(<<KV(Hostile, JList(<<JStr(Hostile), JStr(Hostile \o <<"\n">>)>>))>>))),
      HostileRec(JStr(T_response_item),
                 HostileCall(JStr(Hostile),
                             JStr(JsonLine(JMap(<<KV(T_type, JStr(T_code)), KV(T_code, JStr(Hostile)),
                                                  KV(T_language, JStr(Hostile))>>))))),
      HostileRec(JStr(T_response_item), HostileCall(JStr(Hostile), JStr(Hostile))),
      HostileRec(JStr(T_response_item),
                 HostileCall(JStr(T_update_plan), JStr(JsonLine(HostilePlan(W("pending")))))),
      HostileRec(JStr(T_response_item),
                 JMap(<<KV(T_type, JStr(T_function_call_output)), KV(T_call_id, JStr(Hostile)),
                        KV(T_output, JStr(Hostile))>>)),
      HostileRec(JStr(T_response_item),
                 JMap(<<KV(T_type, JStr(T_reasoning)),
                        KV(T_summary, JList(<<JMap(<<KV(T_type, JStr(Hostile)),
                                                     KV(T_text, JStr(Hostile))>>),
                                              JStr(Hostile)>>))>>)),
      HostileRec(JStr(T_event_msg),
                 JMap(<<KV(T_type, JStr(T_user_message)), KV(T_kind, JStr(Hostile)),
                        KV(T_message, JStr(Hostile))>>)),
      HostileRec(JStr(T_event_msg), JMap(<<KV(T_type, JStr(Hostile))>>)) }

\* An update_plan call whose step has the hostile text as its status
HostileStatusRecord ==
    HostileRec(JStr(T_response_item),
               HostileCall(JStr(T_update_plan), JStr(JsonLine(HostilePlan(JStr(Hostile))))))

HostileLines == {JsonLine(v) : v \in HostileRecords \cup {HostileStatusRecord}}

\* The most lines of a hostile log.
MaxHostileLines == 2

InitHostile ==
    /\ \E n \in 0..MaxHostileLines : file \in [1..n -> HostileLines]
    /\ pc = "load_entries"
    /\ pos = 0
    /\ entries = <<>>
    /\ outcome = NoOutcome
    /\ uploads = <<>>
    /\ summary_section = <<>>
    /\ response = NoResponse
    /\ gitInstalled = TRUE
    /\ HistoryIdle
    /\ NoServer
    /\ self_path = <<>>

\* load_entries and build_page on a hostile log
SpecHostile == InitHostile /\ [][Next]_vars

----------------------------------------------------------------------------
(* Properties of the timeline *)

\* What each line of the model is, worked out once: blank (str.strip() empties
\* it), bad (non-empty, and json.loads rejects it), or a record.
LineFacts ==
    [l \in LogLines |->
        LET text == Strip(l)
            r == JsonLoads(text)
        IN [blank |-> text = <<>>,
            bad |-> text # <<>> /\ ~r.ok,
            rec |-> IF text # <<>> /\ r.ok THEN r.v ELSE JNull]]

IsBlankLine(line) == LineFacts[line].blank
IsBadLine(line) == LineFacts[line].bad
RecordOf(line) == LineFacts[line].rec
IsRecordLine(line) == ~IsBlankLine(line) /\ ~IsBadLine(line)

EntriesOfLine(es, n) == {j \in 1..Len(es) : es[j].lineno = n}
EraseLineno(es) == [j \in 1..Len(es) |-> [es[j] EXCEPT !.lineno = 0]]

\* C1: for every log file, load_entries followed by build_page completes and
\* yields a document, whatever the shape of the lines: neither call raises.
C1_AlwaysRenders == outcome.kind # "raise"

\* C2: in load_entries every non-empty line that is not valid JSON yields exactly
\* one Entry, of class entry-error and raw type error, with that line's number; the
\* loop is never left at such a line and goes on to the last line; and the Entries
\* of the other lines are those of the file without its invalid lines, line numbers
\* apart.
C2_MalformedLineIsolated ==
    /\ \A i \in 1..pos :
          IsBadLine(file[i]) =>
              /\ Cardinality(EntriesOfLine(entries, i)) = 1
              /\ \A j \in EntriesOfLine(entries, i) :
                    /\ entries[j].css_class = "entry-error"
                    /\ entries[j].raw_type = JStr(<<"error">>)
    /\ pc = "failed" /\ outcome.fn = "load_entries" => ~IsBadLine(file[pos + 1])
    /\ pc \in {"loaded", "served"} => pos = Len(file)
    /\ pc # "served" /\ (\E i \in 1..pos : IsBadLine(file[i])) =>
          LET good == SelectIdx(pos, {i \in 1..pos : ~IsBadLine(file[i])})
              without == load_entries([j \in 1..Len(good) |-> file[good[j]]], Len(good))
              others == SelectIdx(Len(entries),
                                  {j \in 1..Len(entries) : ~IsBadLine(file[entries[j].lineno])})
          IN /\ without.ok
             /\ EraseLineno(without.v)
                   = EraseLineno([j \in 1..Len(others) |-> entries[others[j]]])

\* C2's case: load_entries has returned a list that holds the error Entry of an
\* invalid line and, after it, the Entry of a later line.
C2_Witness ==
    /\ pc = "loaded"
    /\ \E i \in 1..Len(file), j \in 1..Len(entries) :
          IsBadLine(file[i]) /\ entries[j].lineno > i /\ entries[j].css_class # "entry-error"

\* The line numbers a document shows, card by card.
DocLineNumbers(doc) ==
    LET at == SelectIdx(Len(doc), {i \in 2..Len(doc) : doc[i - 1] = " (middot) line "})
    IN [j \in 1..Len(at) |-> doc[at[j]]]

\* C3: the Entry list is in input line order: line numbers strictly increase,
\* each is the 1-based number of the non-blank line that produced the Entry, no
\* line has two Entries, and the cards of the document are in the same order.
C3_InputOrder ==
    /\ \A j \in 1..(Len(entries) - 1) : entries[j].lineno < entries[j + 1].lineno
    /\ \A j \in 1..Len(entries) :
          /\ entries[j].lineno \in 1..pos
          /\ ~IsBlankLine(file[entries[j].lineno])
    /\ \A i \in 1..pos : Cardinality(EntriesOfLine(entries, i)) <= 1
    /\ \A i \in 1..pos : IsBlankLine(file[i]) => EntriesOfLine(entries, i) = {}
    /\ outcome.kind = "return" /\ outcome.fn = "load_entries" =>
          /\ outcome.v = entries
          /\ \A j \in 1..Len(entries) :
                LoadLine(file[entries[j].lineno], entries[j].lineno) = Ret(<<entries[j]>>)
    /\ outcome.kind = "return" /\ outcome.fn = "build_page" =>
          DocLineNumbers(outcome.v) = [j \in 1..Len(entries) |-> ToString(entries[j].lineno)]

\* C3's case: a document was built from a list whose Entry comes from the second
\* physical line, the first being blank.
C3_Witness ==
    /\ pc = "served"
    /\ Len(file) = 2 /\ IsBlankLine(file[1])
    /\ Len(entries) = 1 /\ entries[1].lineno = 2

\* A record of type response_item whose payload is of subtype message.
IsMessageRecord(r) ==
    /\ IsMap(r) /\ Get(r, T_type, JNull) = JStr(T_response_item)
    /\ IsMap(Get(r, T_payload, JNull))
    /\ Get(Get(r, T_payload, JNull), T_type, JNull) = JStr(T_message)

\* The texts of the chunks of type input_text or output_text that hold a
\* non-empty text, in content order (none when content is absent or null).
MessageTexts(r) ==
    LET content == Get(Get(r, T_payload, JNull), T_content, JNull)
        items == IF IsList(content) THEN content.items ELSE <<>>
        isText(c) == /\ IsMap(c)
                     /\ Get(c, T_type, JNull) \in {JStr(T_input_text), JStr(T_output_text)}
                     /\ IsStr(Get(c, T_text, JNull)) /\ Get(c, T_text, JNull).s # <<>>
        at == SelectIdx(Len(items), {i \in 1..Len(items) : isText(items[i])})
    IN [j \in 1..Len(at) |-> Get(items[at[j]], T_text, JNull).s]

\* C4: a message record yields no Entry when it holds no chunk of type
\* input_text/output_text with a non-empty text, and otherwise exactly one Entry,
\* whose body joins the chunks in content order and whose style is entry-user
\* exactly when the role is user; no other record shape yields no Entry.  Stated of
\* the record load_entries reads next and of the Entries it has appended.
C4_MessageEntries ==
    /\ pos < Len(file) /\ IsRecordLine(file[pos + 1]) =>
          LET r == RecordOf(file[pos + 1])
              e == convert_record(r, pos + 1)
              texts == MessageTexts(r)
          IN /\ IsMessageRecord(r) =>
                  /\ e.ok
                  /\ texts = <<>> => e.v = None
                  /\ texts # <<>> =>
                        /\ e.v # None
                        /\ e.v.body_html =
                              Join(<<"<hr>">>,
                                   [j \in 1..Len(texts) |-> ReplaceNewlines(HtmlEscape(texts[j]))])
                        /\ (e.v.css_class = "entry-user")
                              <=> (Get(Get(r, T_payload, JNull), T_role, JNull) = JStr(T_user))
             /\ e.ok /\ e.v = None => IsMessageRecord(r)
    /\ \A i \in 1..pos :
          IsRecordLine(file[i]) =>
              Cardinality(EntriesOfLine(entries, i))
                 = IF IsMessageRecord(RecordOf(file[i])) /\ MessageTexts(RecordOf(file[i])) = <<>>
                   THEN 0 ELSE 1

\* C4's case: load_entries has read a message of role user with two text chunks
\* and appended its one Entry, and a message without text, which left none.
C4_Witness ==
    /\ pc = "loaded"
    /\ \E i, k \in 1..Len(file) :
          /\ IsRecordLine(file[i]) /\ IsMessageRecord(RecordOf(file[i]))
          /\ Len(MessageTexts(RecordOf(file[i]))) = 2
          /\ \E j \in EntriesOfLine(entries, i) : entries[j].css_class = "entry-user"
          /\ IsRecordLine(file[k]) /\ IsMessageRecord(RecordOf(file[k]))
          /\ MessageTexts(RecordOf(file[k])) = <<>>
          /\ EntriesOfLine(entries, k) = {}

----------------------------------------------------------------------------
(* Properties of the upload extractor *)

\* What each line is to the extractor, worked out from the line itself:
\* blank, invalid JSON, a JSON value that is no object, an object that is no
\* call of the target function, a call whose arguments do not parse to a map
\* ("skipped"), or an upload, with its arguments map.
UploadLineKind(line) ==
    LET text == Strip(line)
        r == JsonLoads(text)
        payload == Get(r.v, T_payload, JMap(<<>>))
        args == try_parse_json(Get(payload, T_arguments, JNull))
    IN IF text = <<>> THEN [kind |-> "blank", args |-> JNull]
       ELSE IF ~r.ok THEN [kind |-> "invalid", args |-> JNull]
       ELSE IF ~IsMap(r.v) THEN [kind |-> "nonobject", args |-> JNull]
       ELSE IF \/ Get(r.v, T_type, JNull) # JStr(T_response_item)
               \/ ~IsMap(payload)
               \/ Get(payload, T_type, JNull) # JStr(T_function_call)
               \/ Get(payload, T_name, JNull) # JStr(TARGET_RUN_CODE_FN)
            THEN [kind |-> "other", args |-> JNull]
       ELSE IF ~IsMap(args) THEN [kind |-> "skipped", args |-> JNull]
       ELSE [kind |-> "upload", args |-> args]

UploadLineFacts == [l \in UploadLines \cup RequestLines |-> UploadLineKind(l)]

KindOf(line) == UploadLineFacts[line].kind
ArgsOf(line) == UploadLineFacts[line].args

\* C5: the index fields of the snapshots are 1, 2, ..., n in list order and
\* their line numbers strictly increase, each snapshot coming from an upload
\* line of the log; a blank line, an invalid-JSON line, a non-matching record
\* or a target call whose arguments are no map appends nothing and raises
\* nothing; and what extract_run_code_uploads returns has one snapshot per
\* upload line.
C5_ContiguousIndices ==
    /\ \A i \in 1..Len(uploads) :
          /\ uploads[i].index = i
          /\ uploads[i].lineno \in 1..pos
          /\ KindOf(file[uploads[i].lineno]) = "upload"
          /\ \A j \in (i + 1)..Len(uploads) : uploads[i].lineno < uploads[j].lineno
    /\ (pc = "extract" /\ pos < Len(file)
        /\ KindOf(file[pos + 1]) \in {"blank", "invalid", "other", "skipped"})
       => ExtractLine(file[pos + 1], pos + 1, Len(uploads)) = Ret(<<>>)
    /\ pc = "extracted"
       => /\ outcome = Returned("extract_run_code_uploads", uploads)
          /\ Len(uploads) = Cardinality({n \in 1..Len(file) : KindOf(file[n]) = "upload"})

\* Two uploads with a skipped call between them: the second has index 2 and
\* line number 3.
C5_Witness ==
    /\ pc = "extracted"
    /\ Len(file) = 3
    /\ KindOf(file[2]) = "skipped"
    /\ Len(uploads) = 2
    /\ uploads[2].index = 2
    /\ uploads[2].lineno = 3

\* The flags text the arguments ask for: the elements' string forms joined by
\* newlines for a sequence, nothing for null or no flags, the string form else
ExpectedFlags(args) ==
    IF ~HasKey(args, T_flags) THEN <<>>
    ELSE LET v == Get(args, T_flags, JNull) IN
         CASE v.t = "null" -> <<>>
           [] v.t = "list" -> Join(<<"\n">>, [i \in 1..Len(v.items) |-> PyStr(v.items[i])])
           [] OTHER        -> PyStr(v)

\* The code text the arguments ask for
ExpectedCode(args) ==
    IF ~HasKey(args, T_code) THEN <<>>
    ELSE LET v == Get(args, T_code, JNull) IN
         IF v.t = "null" THEN <<>> ELSE PyStr(v)

\* C6: every snapshot's flags is the newline-join of the stringified elements
\* when the call's flags argument is a sequence, the empty string when it is
\* null or absent, its string form otherwise; its code is the empty string
\* when the code argument is null or absent and its string form otherwise.
C6_CodeAndFlags ==
    \A i \in 1..Len(uploads) :
        /\ uploads[i].flags = ExpectedFlags(ArgsOf(file[uploads[i].lineno]))
        /\ uploads[i].code = ExpectedCode(ArgsOf(file[uploads[i].lineno]))

\* The flags ["-O2", "-Wall"] became two lines, and a call with null code and
\* null flags an empty snapshot.
C6_Witness ==
    /\ pc = "extracted"
    /\ Len(uploads) = 2
    /\ uploads[1].flags = <<"-", "O2", "\n", "-", "Wall">>
    /\ uploads[1].code = <<"int", " ", "x;">>
    /\ ArgsOf(file[uploads[2].lineno]) = ArgsNulls
    /\ uploads[2].flags = <<>>
    /\ uploads[2].code = <<>>

----------------------------------------------------------------------------
(* Properties of the revision builder *)

\* The git invocations of a subcommand
Invocations(subcommand) ==
    {k \in 1..Len(gitlog) : gitlog[k].args[1] = subcommand}

\* The commit build_upload_git_history makes for a snapshot
CommitFor(upload) ==
    [tree |-> [code |-> File(upload.code), flags |-> File(upload.flags)],
     message |-> <<"upload", " ", ToString(upload.index)>>]

\* C7: when build_upload_git_history returns, the diff list is as long as the
\* snapshot list, element i is what git shows for the i-th commit, oldest
\* first, under a label that ends in snapshot i's index; commit i holds
\* snapshot i, one commit per snapshot; and for no snapshot the list is empty,
\* git was not invoked and no directory was created.
C7_OneDiffPerSnapshot ==
    pc = "history_returned" =>
        /\ outcome.kind = "return"
        /\ Len(outcome.v) = Len(uploads)
        /\ uploads # <<>> =>
              /\ Len(repo.commits) = Len(uploads)
              /\ Cardinality(Invocations("commit")) = Len(uploads)
              /\ \A i \in 1..Len(uploads) :
                    /\ repo.commits[i] = CommitFor(uploads[i])
                    /\ outcome.v[i].diff = ShowCommit(repo, i)
                    /\ outcome.v[i].label
                       = <<ShortId(i), " (middot) upload ", ToString(uploads[i].index)>>
        /\ uploads = <<>> =>
              /\ outcome.v = <<>>
              /\ gitlog = <<>>
              /\ tmpdir = 0
              /\ areas = {}

\* Two snapshots in a row with the same code and flags, and two diffs returned.
C7_Witness ==
    /\ pc = "history_returned"
    /\ Len(uploads) >= 2
    /\ uploads[1].code = uploads[2].code
    /\ uploads[1].flags = uploads[2].flags
    /\ Len(outcome.v) = Len(uploads)
    /\ outcome.v[1].diff # outcome.v[2].diff

\* The message of the error a failed invocation raises
FailureMessage(inv) ==
    <<"git", " ">> \o inv.args \o <<":", " ">>
    \o (IF Strip(inv.stderr) # <<>> THEN Strip(inv.stderr) ELSE <<"git command failed">>)

\* C8: once a git subcommand of the build exits non-zero, it is the last
\* invocation of the build (none follows, it is not run again), and the build
\* has raised a RuntimeError that names the subcommand and its diagnostic text
\* and has returned nothing.
C8_FailsAsOneUnit ==
    \A k \in 1..Len(gitlog) :
        (gitlog[k].found /\ gitlog[k].returncode # 0) =>
            /\ k = Len(gitlog)
            /\ pc = "history_raised"
            /\ outcome.kind = "raise"
            /\ outcome.fn = "build_upload_git_history"
            /\ outcome.exc = "RuntimeError"
            /\ outcome.msg = FailureMessage(gitlog[k])

\* git show fails for the second commit, after the first diff was computed.
C8_Witness ==
    /\ pc = "history_raised"
    /\ Len(diffs) = 1
    /\ gitlog[Len(gitlog)].args[1] = "show"
    /\ gitlog[Len(gitlog)].returncode # 0
    /\ Strip(gitlog[Len(gitlog)].stderr) # <<>>

\* C10: a directory the build created is gone when the build has ended, by a
\* return or by an exception; while it runs it is the only directory.
C10_AreaDiscarded ==
    /\ pc \in {"history_returned", "history_raised"} => areas = {}
    /\ areas \subseteq {tmpdir}

\* A file write failed in the second round of the loop; the directory that was
\* created is gone.
C10_Witness ==
    /\ pc = "history_raised"
    /\ outcome.exc = "OSError"
    /\ Len(repo.commits) = 1
    /\ tmpdir # 0
    /\ tmpdir \notin areas

----------------------------------------------------------------------------
(* Properties of the upload view *)

\* s occurs in text
Occurs(s, text) ==
    \E k \in 0..(Len(text) - Len(s)) : SubSeq(text, k + 1, k + Len(s)) = s

\* The last git invocation could not start, or exited non-zero
OracleFailed ==
    /\ gitlog # <<>>
    /\ ~gitlog[Len(gitlog)].found \/ gitlog[Len(gitlog)].returncode # 0

\* C9: when the log has an upload and git is missing or a subcommand exits
\* non-zero, the request is answered with 200 and a document that holds the
\* captured-uploads summary and one error banner.
C9_OracleFailureShowsBanner ==
    (pc \in {"done", "raised"} /\ OracleFailed) =>
        /\ response.status = 200
        /\ Occurs(summary_section, response.body)
        /\ Occurs(<<"<div class='error-banner'>Failed to build git history: ">>, response.body)

----------------------------------------------------------------------------
(* Properties of the server *)

\* C11: every request is answered by its path alone: "/" and "/index.html" get
\* status 200 with the document build_page makes of main's entries,
\* "/run_code_log.html" gets status 200 with the document build_run_code_page
\* returned, every other path gets 404 and no page builder is called; and a 200
\* response has Content-Type text/html; charset=utf-8 and a Content-Length that
\* is the number of bytes of the encoded body.
C11_AnswersByPath ==
    \A i \in 1..Len(served) :
        /\ served[i].path \in IndexPaths =>
              /\ served[i].response.status = 200
              /\ served[i].outcome = Returned("build_page", served[i].response.body)
        /\ served[i].path = RunCodePath =>
              /\ served[i].response.status = 200
              /\ served[i].outcome = Returned("build_run_code_page", served[i].response.body)
        /\ served[i].path \notin IndexPaths \cup {RunCodePath} =>
              /\ served[i].response.status = 404
              /\ served[i].outcome = NoOutcome
        /\ served[i].response.status = 200 =>
              /\ served[i].response.content_type = "text/html; charset=utf-8"
              /\ served[i].response.content_length = Utf8Len(served[i].response.body)

\* The lines load_entries makes no Entry of: the blank line and the message
\* without text
NoEntryLines ==
    {<<" ">>, JsonLine(Rec(T_response_item, "t4", Message(W("assistant"), JList(<<>>))))}

\* The log is missing, or is empty, or holds only lines that give no Entry
NothingToServe == ~exists \/ \A i \in 1..Len(file) : file[i] \in NoEntryLines

\* The process is over with a diagnostic on sys.stderr and a non-zero status
ExitedWithDiagnostic ==
    /\ pc = "exited"
    /\ stderr # <<>>
    /\ exit_status # <<>>
    /\ exit_status[1] # 0

\* C12: the port is bound only when the log exists and load_entries returned at
\* least one Entry; and when the log is missing or loading yields no Entry (an
\* empty file, blank lines, messages without text), the port is never bound, no
\* request is ever served, and the process comes to print a diagnostic on
\* sys.stderr and exit with a non-zero status.
C12_StartupGuard ==
    /\ [](bound => exists /\ entries # <<>> /\ load_entries(file, Len(file)) = Ret(entries))
    /\ [](NothingToServe => ~bound /\ served = <<>> /\ self_path = <<>> /\ response = NoResponse)
    /\ [](pc = "exited" /\ NothingToServe => ExitedWithDiagnostic)
    /\ (NothingToServe ~> ExitedWithDiagnostic)

\* main exited on a log of two lines, a blank one and a message without text
C12_Witness ==
    /\ ExitedWithDiagnostic
    /\ exists
    /\ Len(file) = 2
    /\ file[1] # file[2]
    /\ \A i \in 1..Len(file) : file[i] \in NoEntryLines
    /\ stderr = <<<<"No entries were parsed from the log.", "\n">>>>

----------------------------------------------------------------------------
(* Properties of the renderers *)

\* A character html.escape rewrites stands in the text as it is.  The fixed
\* parts of the program's HTML are symbols of several characters, so a symbol
\* that is one of these characters was copied from the log.
RawSpecial(text) == \E i \in 1..Len(text) : text[i] \in {"<", ">", "&", "\"", "'"}

\* C13: no Entry body and no document build_page returns holds a "<", ">", "&"
\* or quote character of the log as it is: every text taken from the log (keys,
\* scalars, code and language, plan step and status, the status in the chip's
\* class attribute, call name and id, message text, label, timestamp) went
\* through html.escape where it was embedded.
C13_AllEscaped ==
    /\ \A i \in 1..Len(entries) : ~RawSpecial(entries[i].body_html)
    /\ (outcome.kind = "return" /\ outcome.fn = "build_page") => ~RawSpecial(outcome.v)

----------------------------------------------------------------------------
(* Properties of overlapping requests *)

\* extract_run_code_uploads on the first n lines: Ret(uploads), or the exception
\* of the first line that raises
RECURSIVE extract_run_code_uploads(_, _)
extract_run_code_uploads(lines, n) ==
    IF n = 0 THEN Ret(<<>>)
    ELSE LET before == extract_run_code_uploads(lines, n - 1) IN
         IF ~before.ok THEN before
         ELSE LET r == ExtractLine(lines[n], n, Len(before.v)) IN
              IF ~r.ok THEN r ELSE Ret(before.v \o r.v)

\* The repository after the commit loop of build_upload_git_history went
\* through the first n snapshots with git succeeding
RECURSIVE CommittedRepo(_, _)
CommittedRepo(ups, n) ==
    IF n = 0 THEN GitInit(EmptyRepo)
    ELSE GitCommit(GitAdd(WriteFlagsFile(WriteCodeFile(CommittedRepo(ups, n - 1), ups[n].code),
                                         ups[n].flags)),
                   CommitMessage(ups[n]))

\* What build_upload_git_history returns on a non-empty list when every git
\* subcommand succeeds, in a directory nothing else touches
HistoryAlone(ups) ==
    LET r == CommittedRepo(ups, Len(ups))
        rs == RevsOf(GitRevList(r))
    IN [i \in 1..Len(ups) |->
           [label |-> DiffLabel(Strip(GitRevParseShort(r, rs[i])), ups[i]),
            diff |-> GitShow(r, rs[i])]]

\* The response of the upload view to a request that runs alone on the log,
\* git answering as log records: nothing when a step raised something that is
\* no RuntimeError, the banner when git exited non-zero, else the diff cards
RunCodeAloneWith(ups, summary, log, raised) ==
    IF ~summary.ok THEN NoResponse
    ELSE IF ups = <<>>
    THEN Response200(RunCodeDocument(source_path, 0, summary.v, <<>>))
    ELSE IF log # <<>> /\ ~log[Len(log)].found THEN NoResponse
    ELSE IF log # <<>> /\ log[Len(log)].returncode # 0
    THEN Response200(RunCodeDocument(source_path, Len(ups), summary.v,
                                     ErrorBanner(FailureMessage(log[Len(log)]))))
    ELSE IF raised THEN NoResponse
    ELSE Response200(RunCodeDocument(source_path, Len(ups), summary.v,
                                     DiffsSection(HistoryAlone(ups))))

RunCodeAlone(ups, log, raised) ==
    IF ~ups.ok THEN NoResponse
    ELSE RunCodeAloneWith(ups.v, render_upload_summary(ups.v), log, raised)

IndexAlone(page) == IF page.ok THEN Response200(page.v) ELSE NoResponse

\* The response a request for request_path gets when no other request runs
ResponseAlone(request_path, log, raised) ==
    IF request_path \in IndexPaths THEN IndexAlone(build_page(entries, source_path))
    ELSE IF request_path = RunCodePath
    THEN RunCodeAlone(extract_run_code_uploads(file, Len(file)), log, raised)
    ELSE Response404

\* Where a thread is while its temporary directory exists
InHistory(at) ==
    at \in {"git_init", "commit_loop", "write_flags", "git_add", "git_commit",
            "diff_loop", "git_show"}

\* C14: with the requests' threads interleaved in any way, main's entry list
\* and the log never change; each thread that is building a revision history
\* has a directory that exists, that no other such thread has, and that holds
\* the repository as this thread left it; and the response a request gets is
\* the one it gets when it runs alone (git answering it the same way).
C14_NoInterference ==
    /\ [][entries' = entries /\ file' = file]_vars
    /\ [](\A t \in Waiting :
             InHistory(ctx[t].pc) =>
                /\ ctx[t].tmpdir \in areas
                /\ ctx[t].tmpdir \in DOMAIN disk
                /\ disk[ctx[t].tmpdir] = ctx[t].repo
                /\ InHistory(pc) => tmpdir # ctx[t].tmpdir
                /\ \A u \in Waiting \ {t} :
                      InHistory(ctx[u].pc) => ctx[u].tmpdir # ctx[t].tmpdir)
    /\ [](cur # 0 /\ pc \in {"done", "raised"} =>
             response = ResponseAlone(self_path, gitlog, outcome.kind = "raise"))

\* Two requests for the upload view overlap: each made its commit in a
\* directory of its own and is about to ask git for the patch, one running, the
\* other waiting
C14_Witness ==
    /\ cur # 0
    /\ pc = "git_show"
    /\ tmpdir \in areas
    /\ Len(repo.commits) = 1
    /\ \E t \in Waiting :
          /\ ctx[t].pc = "git_show"
          /\ ctx[t].tmpdir \in areas \ {tmpdir}
          /\ Len(disk[ctx[t].tmpdir].commits) = 1

----------------------------------------------------------------------------
(* A log of function calls: every shape of name and arguments the          *)
(* function_call branch tells apart.                                        *)

CallRec(name, arguments) == Rec(T_response_item, "t9", FunctionCall(name, arguments))

\* A call without the "arguments" key
CallNoArguments(name) ==
    Rec(T_response_item, "t9",
        JMap(<<KV(T_type, JStr(T_function_call)), KV(T_name, name), KV(T_call_id, W("c1"))>>))

\* A plan whose first item is not an object
MixedPlanArgs ==
    JMap(<<KV(T_explanation, W("why")),
           KV(T_plan, JList(<<W("loose"), JMap(<<KV(T_step, W("s"))>>)>>))>>)

CallRecords ==
    { CallRec(JStr(T_update_plan), JStr(JsonLine(PlanArgs))),
      CallRec(JStr(T_update_plan), PlanArgs),
      CallRec(JStr(T_update_plan), JStr(JsonLine(MixedPlanArgs))),
      CallRec(JStr(T_update_plan), JStr(JsonLine(JMap(<<KV(T_explanation, W("why"))>>)))),
      CallRec(JStr(T_update_plan), JStr(JsonLine(JMap(<<KV(T_plan, JList(<<W("loose")>>))>>)))),
      CallRec(JStr(T_update_plan), JStr(<<"{", "oops">>)),
      CallRec(W("shell"), JStr(JsonLine(PlanArgs))),
      CallRec(W("shell"), JStr(<<"{", "oops">>)),
      CallRec(W("shell"), JStr(<<>>)),
      CallRec(W("shell"), JNum("5")),
      CallNoArguments(JStr(T_update_plan)),
      CallRec(JNum("5"), JStr(JsonLine(PlanArgs))) }

CallLines == {JsonLine(v) : v \in CallRecords}

\* The most lines of a log of function calls.
MaxCallLines == 2

InitCalls ==
    /\ \E n \in 0..MaxCallLines : file \in [1..n -> CallLines]
    /\ pc = "load_entries"
    /\ pos = 0
    /\ entries = <<>>
    /\ outcome = NoOutcome
    /\ uploads = <<>>
    /\ summary_section = <<>>
    /\ response = NoResponse
    /\ gitInstalled = TRUE
    /\ HistoryIdle
    /\ NoServer
    /\ self_path = <<>>

\* load_entries and build_page on a log of function calls
SpecCalls == InitCalls /\ [][Next]_vars

----------------------------------------------------------------------------
(* Properties of the function_call entries *)

\* The payload each line of a log of function calls holds, worked out once
CallFacts == [l \in CallLines |-> Get(JsonLoads(Strip(l)).v, T_payload, JNull)]

CallName(e) == Get(CallFacts[file[e.lineno]], T_name, JStr(T_unknown))
CallId(e) == Get(CallFacts[file[e.lineno]], T_call_id, JStr(T_na))
CallArgs(e) == OrElse(Get(CallFacts[file[e.lineno]], T_arguments, JNull), JStr(<<>>))

\* The arguments as JSON, JNull when they do not parse
CallParsed(e) == try_parse_json(CallArgs(e))

\* The entries a function_call record was turned into
CallEntries ==
    {i \in 1..Len(entries) :
        entries[i].raw_type = JStr(T_response_item \o <<"/">> \o T_function_call)}

\* The call name and the call id, at the start of the body
CallHeader(e) ==
    <<"<div><strong>Call:</strong> ">> \o HtmlEscape(PyStr(CallName(e))) \o <<"</div>">>
    \o <<"<div><strong>call_id:</strong> ">> \o HtmlEscape(PyStr(CallId(e))) \o <<"</div>">>

\* The plan steps a board shows: the objects of the "plan" list, in plan order
PlanSteps(parsed) ==
    IF ~IsMap(parsed) THEN <<>>
    ELSE LET plan == Get(parsed, T_plan, JNull) IN
         IF ~IsList(plan) THEN <<>>
         ELSE LET dicts == SelectIdx(Len(plan.items),
                                     {i \in 1..Len(plan.items) : IsMap(plan.items[i])})
              IN [j \in 1..Len(dicts) |-> plan.items[dicts[j]]]

\* Where the list items of a plan board start in a body
BoardItemStarts(body) ==
    SelectIdx(Len(body), {k \in 1..Len(body) : body[k] = "<li><span class=\"status-chip status-"})

\* The k-th list item of the board in a body, as far as the next item
BoardItemText(body, starts, k) ==
    SubSeq(body, starts[k], IF k < Len(starts) THEN starts[k + 1] - 1 ELSE Len(body))

\* A list item shows its step's status chip and then the step
ShowsStep(item_text, step) ==
    LET status == PyStr(Get(step, T_status, JStr(T_unknown))) IN
    Occurs(<<"\">">>
           \o HtmlEscape([i \in 1..Len(status) |-> IF status[i] = "_" THEN " " ELSE status[i]])
           \o <<"</span>", "<span>">>
           \o HtmlEscape(PyStr(Get(step, T_step, JStr(<<>>))))
           \o <<"</span></li>">>,
           item_text)

\* The board part of a body: one list item per plan step, in plan order
IsBoardOf(board, steps) ==
    /\ steps # <<>>
    /\ board[1] = "<section class=\"plan-board\"><h4>Plan</h4>"
    /\ board[Len(board)] = "</ol></section>"
    /\ \E starts \in {BoardItemStarts(board)} :
          /\ Len(starts) = Len(steps)
          /\ \A k \in 1..Len(steps) : ShowsStep(BoardItemText(board, starts, k), steps[k])

\* The arguments themselves: structured when they parse, preformatted when they
\* do not, nothing when there are none
ArgumentsShown(e) ==
    IF CallParsed(e) # None THEN render_structured_data(CallParsed(e)).v
    ELSE IF Truthy(CallArgs(e)) THEN format_pre(CallArgs(e))
    ELSE <<>>

\* The board of an update_plan call whose arguments hold plan steps
HasBoard(e) == CallName(e) = JStr(T_update_plan) /\ PlanSteps(CallParsed(e)) # <<>>

\* A body is the header and then exactly one rendering of the arguments
ExactlyOneRendering(e) ==
    \E rest \in {SubSeq(e.body_html, Len(CallHeader(e)) + 1, Len(e.body_html))} :
       /\ e.body_html = CallHeader(e) \o rest
       /\ IF CallParsed(e) # None /\ CallName(e) = JStr(T_update_plan)
          THEN IsBoardOf(rest, PlanSteps(CallParsed(e)))
          ELSE IF CallParsed(e) # None
          THEN rest = render_structured_data(CallParsed(e)).v
          ELSE rest = format_pre(CallArgs(e))

BoardThenArguments(e) ==
    \E rest \in {SubSeq(e.body_html, Len(CallHeader(e)) + 1,
                        Len(e.body_html) - Len(ArgumentsShown(e)))} :
       /\ e.body_html = CallHeader(e) \o rest \o ArgumentsShown(e)
       /\ IF HasBoard(e) THEN IsBoardOf(rest, PlanSteps(CallParsed(e))) ELSE rest = <<>>

----------------------------------------------------------------------------
(* The log is rewritten while the server runs *)

\* What the log holds at startup or after a modification: an upload, two
\* uploads, an upload whose timestamp is a number, and a record that is no call
ModifyLogs ==
    { <<JsonLine(UploadCall(W("u1"), JStr(JsonLine(ArgsTwoFlags))))>>,
      <<JsonLine(UploadCall(W("u1"), JStr(JsonLine(ArgsTwoFlags)))),
        JsonLine(UploadCall(W("u2"), ArgsNulls))>>,
      <<JsonLine(UploadCall(JNum("7"), ArgsNulls))>>,
      <<JsonLine(Rec(T_session_meta, "n1", JMap(<<>>)))>> }

\* self.path of the requests served between the modifications
ModifyPaths == IndexPaths \cup {RunCodePath, <<"/", "favicon.ico">>}

AcceptModify == AcceptOf(ModifyPaths)

\* Something outside the program rewrites the log between two requests
ModifyLog ==
    /\ pc = "serve_forever"
    /\ cur = 0
    /\ bound
    /\ \E log \in ModifyLogs \ {file} : file' = log
    /\ UNCHANGED <<pc, pos, entries, outcome, uploads, summary_section, response>>
    /\ UNCHANGED histvars
    /\ UNCHANGED srvvars

\* The server in serve_forever: main loaded the log and bound the port
InitModify ==
    /\ file \in ModifyLogs
    /\ entries = load_entries(file, Len(file)).v
    /\ gitInstalled \in BOOLEAN
    /\ pc = "serve_forever"
    /\ pos = 0
    /\ outcome = NoOutcome
    /\ uploads = <<>>
    /\ summary_section = <<>>
    /\ response = NoResponse
    /\ HistoryIdle
    /\ exists = TRUE
    /\ stderr = <<>>
    /\ sys_stdout = <<<<"Serving log on http://127.0.0.1:8000", "\n">>>>
    /\ exit_status = <<>>
    /\ bound = TRUE
    /\ self_path = <<>>
    /\ served = <<>>
    /\ cur = 0
    /\ ctx = <<>>
    /\ disk = <<>>

\* Requests served one after the other, the log rewritten in between
NextModify ==
    \/ AcceptModify \/ ModifyLog
    \/ DoGetIndex \/ DoGetRunCode \/ DoGetNotFound \/ RunCodeSteps \/ Finish

SpecModify == InitModify /\ [][NextModify]_vars

----------------------------------------------------------------------------
(* Properties of a log that changes *)

\* The calls of the target function the timeline shows
TimelineCalls ==
    {i \in 1..Len(entries) :
        /\ entries[i].raw_type = JStr(T_response_item \o <<"/">> \o T_function_call)
        /\ Occurs(<<"<div><strong>Call:</strong> ">> \o HtmlEscape(TARGET_RUN_CODE_FN)
                  \o <<"</div>">>, entries[i].body_html)}

\* C16: after startup, whatever modifications are made to the log and whatever
\* requests are served in between, the entry list is the one load_entries gave
\* at startup and never changes, and every GET of / or /index.html is
\* answered with the same document, build_page of that list; the upload view
\* reads the log again on every request: its answer is the one for the log as
\* it is then.
C16_IndexFrozen ==
    /\ entries = load_entries(file, Len(file)).v
    /\ [][entries' = entries]_vars
    /\ [](\A k \in 1..Len(served) :
             served[k].path \in IndexPaths =>
                served[k].response = IndexAlone(build_page(entries, source_path)))
    /\ [](cur # 0 /\ pc \in {"done", "raised"} /\ self_path = RunCodePath =>
             response = RunCodeAlone(extract_run_code_uploads(file, Len(file)), gitlog,
                                     outcome.kind = "raise"))

\* The log was rewritten; a GET of the index was then answered with the
\* document of the startup entries, and the upload view, served after it,
\* shows a number of uploads that is not the number of calls in the timeline
C16_Witness ==
    /\ Len(served) = 2
    /\ load_entries(file, Len(file)).v # entries
    /\ served[1].path \in IndexPaths
    /\ served[1].response.status = 200
    /\ served[1].response = Response200(build_page(entries, source_path).v)
    /\ served[2].path = RunCodePath
    /\ served[2].response.status = 200
    /\ uploads = extract_run_code_uploads(file, Len(file)).v
    /\ Len(uploads) # Cardinality(TimelineCalls)
    /\ TimelineCalls # {}

====
